---- MODULE Spec2Model ----
(***************************************************************************)
(* A model of xapi-statement-builder: the pattern matcher of               *)
(* PatternRegistration, the profile registry of ProfileRegistration and    *)
(* the Statement Template validation of StatementBuilder.templated.        *)
(***************************************************************************)
EXTENDS Integers, Sequences, FiniteSets, TLC

(***************************************************************************)
(* Bounds of the model.                                                    *)
(***************************************************************************)
\* longest sequence of template ids handed to _matches
MaxLen == 3
\* most children in a sequence or alternates pattern
MaxChildren == 2

\* Statement Template ids and Pattern ids (URIs in the program)
TemplateIds == {"a", "b"}
PatternIds == {"p1", "p2"}

(***************************************************************************)
(* const [SUCCESS, PARTIAL, FAILURE] = [2,1,0]                             *)
(***************************************************************************)
SUCCESS == 2
PARTIAL == 1
FAILURE == 0

VARIABLES
    mpatterns,  \* _matches: the occurrence's pattern set, map.patterns
    mseq,       \* _matches: the argument statements
    melem,      \* _matches: the argument element
    mres,       \* _matches: what the call produced
    mpc,        \* "call" before the call, "done" after it
    reg,        \* the ProfileRegistration: its oracle and map.lookups
    occs,       \* the PatternRegistrations handed out by pattern(), by slot
    accepted,   \* by slot, the template ids recordTemplate did not reject
    stmt,       \* the StatementBuilder the caller holds
    hist,       \* where stmt came from and the calls made on it since
    out         \* the last call made and how it ended

mvars == <<mpatterns, mseq, melem, mres, mpc>>
rvars == <<reg, occs, accepted, stmt, hist, out>>
vars == <<mpatterns, mseq, melem, mres, mpc, reg, occs, accepted, stmt, hist, out>>

(***************************************************************************)
(* Sequences of at most n elements of S.                                   *)
(***************************************************************************)
SeqUpTo(S, n) == UNION {[1..k -> S] : k \in 0..n}

(***************************************************************************)
(* What a call produces: a returned object {success, remaining}, a         *)
(* returned undefined (the function falls off its end), or a thrown        *)
(* TypeError.                                                              *)
(***************************************************************************)
Return(s, r) == [type |-> "return", success |-> s, remaining |-> r]
Undefined == [type |-> "undefined", success |-> FAILURE, remaining |-> <<>>]
Throw == [type |-> "throw", success |-> FAILURE, remaining |-> <<>>]

\* the value of a property that an object does not have
undefined == "undefined"

(***************************************************************************)
(* A pattern of the pattern set is an immutable Map with one of the keys   *)
(* sequence, alternates (Lists of ids), oneOrMore, zeroOrMore, optional    *)
(* (one id); kind "none" is a pattern with none of these keys.  The ids    *)
(* name a pattern of the set or, otherwise, a Statement Template.          *)
(***************************************************************************)
has(pattern, key) == pattern.kind = key
get(pattern, key) ==
    IF key \in {"sequence", "alternates"} THEN pattern.children ELSE pattern.children[1]

\* maybe.statements: the object _matches returns has the properties success
\* and remaining only
maybe_statements(maybe) ==
    IF "statements" \in DOMAIN maybe
    THEN [defined |-> TRUE, value |-> maybe["statements"]]
    ELSE [defined |-> FALSE, value |-> <<>>]

RECURSIVE _matches(_, _, _)
RECURSIVE sequenceLoop(_, _, _, _, _, _)
RECURSIVE alternatesLoop(_, _, _, _, _, _)
RECURSIVE oneOrMoreLoop(_, _, _, _, _, _)
RECURSIVE zeroOrMoreLoop(_, _, _, _)
RECURSIVE sequenceLoop_consumed(_, _, _, _, _, _)
RECURSIVE oneOrMoreLoop_noPartial(_, _, _, _, _, _)
RECURSIVE zeroOrMoreLoop_rewound(_, _, _, _)
RECURSIVE alternatesLoop_noPartial(_, _, _, _, _, _)

\* a sequence that hands back what is left at the failing child
sequenceLoop_consumed(patterns, statements, children, i, success, remaining) ==
    IF i > Len(children) THEN Return(success, remaining)
    ELSE LET m == _matches(patterns, remaining, children[i]) IN
         IF m.type # "return" THEN Throw
         ELSE IF m.success = FAILURE THEN Return(FAILURE, remaining)
         ELSE IF m.success = PARTIAL THEN Return(PARTIAL, <<>>)
         ELSE sequenceLoop_consumed(patterns, statements, children, i + 1, m.success, m.remaining)

\* for(let next of pattern.get('sequence')) with success, remaining carried
sequenceLoop(patterns, statements, children, i, success, remaining) ==
    IF i > Len(children) THEN Return(success, remaining)
    ELSE LET m == _matches(patterns, remaining, children[i]) IN
         IF m.type # "return" THEN Throw
         ELSE IF m.success = FAILURE THEN Return(FAILURE, statements)
         ELSE IF m.success = PARTIAL THEN Return(PARTIAL, <<>>)
         ELSE sequenceLoop(patterns, statements, children, i + 1, m.success, m.remaining)

\* an alternates that takes a child that is PARTIAL for one that fails
alternatesLoop_noPartial(patterns, statements, children, i, success, remaining) ==
    IF i > Len(children) THEN Return(success, remaining)
    ELSE LET maybe == _matches(patterns, statements, children[i]) IN
         IF maybe.type # "return" THEN Throw
         ELSE IF maybe.success = SUCCESS THEN Throw
         ELSE alternatesLoop_noPartial(patterns, statements, children, i + 1, success, remaining)

\* for(let next of pattern.get('alternates')) with success, remaining carried
alternatesLoop(patterns, statements, children, i, success, remaining) ==
    IF i > Len(children)
    THEN IF success = PARTIAL THEN Return(PARTIAL, <<>>) ELSE Return(success, remaining)
    ELSE LET maybe == _matches(patterns, statements, children[i]) IN
         IF maybe.type # "return" THEN Throw
         ELSE IF maybe.success = SUCCESS
         THEN LET ms == maybe_statements(maybe) IN
              IF ~ ms.defined THEN Throw   \* undefined.length
              ELSE IF Len(ms.value) < Len(remaining)
                   THEN alternatesLoop(patterns, statements, children, i + 1, SUCCESS, ms.value)
                   ELSE alternatesLoop(patterns, statements, children, i + 1, SUCCESS, remaining)
         ELSE IF maybe.success = PARTIAL /\ success = FAILURE
              THEN alternatesLoop(patterns, statements, children, i + 1, PARTIAL, remaining)
              ELSE alternatesLoop(patterns, statements, children, i + 1, success, remaining)

\* a oneOrMore without the branch for a first attempt that is PARTIAL
oneOrMoreLoop_noPartial(patterns, statements, child, success, remaining, last_statements) ==
    LET maybe == _matches(patterns, last_statements, child) IN
    IF maybe.type # "return" THEN Throw
    ELSE IF maybe.success # SUCCESS
         THEN IF maybe.success = PARTIAL /\ Len(last_statements) > 0
              THEN Return(PARTIAL, last_statements)
              ELSE Return(success, last_statements)
    ELSE IF Len(remaining) = Len(last_statements)
         THEN Return(SUCCESS, remaining)
         ELSE oneOrMoreLoop_noPartial(patterns, statements, child, SUCCESS, remaining, remaining)

\* while(true) of oneOrMore; remaining is never assigned in the loop
oneOrMoreLoop(patterns, statements, child, success, remaining, last_statements) ==
    LET maybe == _matches(patterns, last_statements, child) IN
    IF maybe.type # "return" THEN Throw
    ELSE IF maybe.success # SUCCESS /\ success = FAILURE /\ maybe.success = PARTIAL
         THEN Return(PARTIAL, <<>>)
    ELSE IF maybe.success # SUCCESS
         THEN IF maybe.success = PARTIAL /\ Len(last_statements) > 0
              THEN Return(PARTIAL, last_statements)
              ELSE Return(success, last_statements)
    ELSE \* maybe.success === SUCCESS: success = SUCCESS
         IF Len(remaining) = Len(last_statements)
         THEN Return(SUCCESS, remaining)
         ELSE oneOrMoreLoop(patterns, statements, child, SUCCESS, remaining, remaining)

\* a zeroOrMore that hands back its whole input when the child fails
zeroOrMoreLoop_rewound(patterns, statements, child, last_statements) ==
    LET m == _matches(patterns, last_statements, child) IN
    IF m.type # "return" THEN Throw
    ELSE IF m.success = FAILURE THEN Return(SUCCESS, statements)
    ELSE IF m.success = PARTIAL /\ Len(m.remaining) > 0 THEN Return(m.success, m.remaining)
    ELSE IF Len(m.remaining) = Len(last_statements) THEN Return(SUCCESS, m.remaining)
    ELSE zeroOrMoreLoop_rewound(patterns, statements, child, m.remaining)

\* while(true) of zeroOrMore
zeroOrMoreLoop(patterns, statements, child, last_statements) ==
    LET m == _matches(patterns, last_statements, child) IN
    IF m.type # "return" THEN Throw
    ELSE IF m.success = FAILURE THEN Return(SUCCESS, last_statements)
    ELSE IF m.success = PARTIAL /\ Len(m.remaining) > 0 THEN Return(m.success, m.remaining)
    ELSE IF Len(m.remaining) = Len(last_statements) THEN Return(SUCCESS, m.remaining)
    ELSE zeroOrMoreLoop(patterns, statements, child, m.remaining)

\* let [success, remaining] = this._matches(...): array destructuring needs
\* an iterable, and the object _matches returns has no Symbol.iterator
optionalDestructure(m) ==
    IF m.type = "return" /\ "Symbol.iterator" \in DOMAIN m THEN m ELSE Throw

\* the is_template branch of _matches
matchTemplate_consuming(statements, element) ==
    IF Len(statements) = 0 THEN Return(PARTIAL, <<>>)
    ELSE IF Head(statements) = element THEN Return(SUCCESS, Tail(statements))
    ELSE Return(FAILURE, Tail(statements))

matchTemplate(statements, element) ==
    IF Len(statements) = 0 THEN Return(PARTIAL, <<>>)
    ELSE IF Head(statements) = element THEN Return(SUCCESS, Tail(statements))
    ELSE Return(FAILURE, statements)

_matches(patterns, statements, element) ==
    LET is_template == ~ (element \in DOMAIN patterns) IN
    IF is_template
    THEN matchTemplate(statements, element)
    ELSE LET pattern == patterns[element] IN
         IF has(pattern, "sequence")
         THEN sequenceLoop(patterns, statements, get(pattern, "sequence"), 1, SUCCESS, statements)
         ELSE IF has(pattern, "alternates")
         THEN alternatesLoop(patterns, statements, get(pattern, "alternates"), 1, FAILURE, statements)
         ELSE IF has(pattern, "oneOrMore")
         THEN oneOrMoreLoop(patterns, statements, get(pattern, "oneOrMore"), FAILURE, statements, statements)
         ELSE IF has(pattern, "zeroOrMore")
         THEN zeroOrMoreLoop(patterns, statements, get(pattern, "zeroOrMore"), statements)
         ELSE IF has(pattern, "optional")
         THEN IF Len(statements) = 0 THEN Return(SUCCESS, <<>>)
              ELSE LET m == _matches(patterns, statements, get(pattern, "optional")) IN
                   IF m.type = "throw" THEN Throw
                   ELSE LET d == optionalDestructure(m) IN
                        IF d.type # "return" THEN Throw
                        ELSE IF d.success = SUCCESS \/ d.success = PARTIAL
                             THEN Return(d.success, d.remaining)
                             ELSE Return(SUCCESS, statements)
         ELSE Undefined

\* _sequencePossible: undefined when _matches returned nothing to destructure
_sequencePossible_anyRemainder(patterns, sequence, pattern) ==
    LET m == _matches(patterns, sequence, pattern) IN
    IF m.type # "return" THEN "throw"
    ELSE IF m.success = SUCCESS THEN "true"
    ELSE IF m.success = PARTIAL THEN "true"
    ELSE "false"

_sequencePossible(patterns, sequence, pattern) ==
    LET m == _matches(patterns, sequence, pattern) IN
    IF m.type # "return" THEN "throw"
    ELSE IF m.success = SUCCESS THEN (IF Len(m.remaining) = 0 THEN "true" ELSE "false")
    ELSE IF m.success = PARTIAL THEN "true"
    ELSE "false"

(***************************************************************************)
(* Identifiers.  The ids of templates, patterns, profiles and versions are *)
(* URIs (they contain a colon); prefLabels and other names do not.         *)
(***************************************************************************)
ProfileId == "prof"
VersionId == "version"
VerbUri == "verb:run"
VerbName == "run"
SubregistrationUri == "ext:subregistration"
VerbWalkUri == "verb:walk"
ActivityUri == "activity:course"
ActivityName == "course"
Uris ==
    TemplateIds \cup PatternIds
    \cup {ProfileId, VersionId, VerbUri, SubregistrationUri, VerbWalkUri, ActivityUri}

\* the prefLabel of each template and pattern of the profiles registered
PrefLabel == [i \in TemplateIds \cup PatternIds |->
    CASE i = "a" -> "a template"
      [] i = "b" -> "b template"
      [] i = "p1" -> "first pattern"
      [] OTHER -> "second pattern"]
\* a name written in capitals, and a name no profile has
UpperName == "A TEMPLATE"
UnknownName == "nope"

\* identifier.indexOf(':') != -1
hasColon(identifier) == identifier \in Uris

UpperVerbName == "RUN"
toLowerCase(s) ==
    IF s = UpperName THEN "a template" ELSE IF s = UpperVerbName THEN VerbName ELSE s

(***************************************************************************)
(* A call ends by returning a value (ok) or by throwing: Error is thrown   *)
(* by the library, TypeError by the runtime.                               *)
(***************************************************************************)
NoValue == [id |-> undefined]
Ok(v) == [status |-> "ok", value |-> v]
\* a lookup of an oracle that returns undefined
None == [status |-> "none", value |-> NoValue]
Raise(kind) == [status |-> kind, value |-> NoValue]

(***************************************************************************)
(* oracle.js                                                               *)
(***************************************************************************)
\* uriOracle.lookup: undefined.indexOf throws
uriOracle_lookup(identifier, objectType) ==
    IF identifier = undefined THEN Raise("TypeError")
    ELSE IF hasColon(identifier) THEN Ok([id |-> identifier])
    ELSE None

\* ProfileOracle.matcher: concept.get('prefLabel').some throws on a concept
\* of the type asked for that has another id and no prefLabel
matcher(identifier, objectType, concept) ==
    /\ concept.type = objectType
    /\ \/ toLowerCase(concept.id) = toLowerCase(identifier)
       \/ \E value \in concept.prefLabel.values :
            toLowerCase(value) = toLowerCase(identifier)

matcherThrows(identifier, objectType, concept) ==
    /\ concept.type = objectType
    /\ toLowerCase(concept.id) # toLowerCase(identifier)
    /\ ~ concept.prefLabel.defined

RECURSIVE filter(_, _, _)
filter(lookups, identifier, objectType) ==
    IF lookups = <<>> THEN <<>>
    ELSE (IF matcher(identifier, objectType, Head(lookups)) THEN <<Head(lookups)>> ELSE <<>>)
         \o filter(Tail(lookups), identifier, objectType)

\* ProfileOracle.lookup: only an unambiguous match is returned
ProfileOracle_lookup(profile, identifier, objectType) ==
    IF identifier = undefined THEN Raise("TypeError")
    ELSE IF \E i \in 1..Len(profile.lookups) :
                matcherThrows(identifier, objectType, profile.lookups[i])
    THEN Raise("TypeError")
    ELSE LET matching == filter(profile.lookups, identifier, objectType) IN
         IF Len(matching) = 1 THEN Ok(matching[1]) ELSE None

\* ProfileOracle.fromProfile: lookups is concepts, templates, patterns in a row.
\* Of a pattern the model keeps what a lookup's callers read: id, type,
\* prefLabel and inScheme.
PatternConcept(pattern) ==
    [id |-> pattern.id, type |-> "Pattern", prefLabel |-> pattern.prefLabel,
     inScheme |-> pattern.inScheme]

fromProfile(profile) ==
    [kind |-> "ProfileOracle",
     lookups |-> profile.concepts \o profile.templates
                 \o [i \in 1..Len(profile.patterns) |-> PatternConcept(profile.patterns[i])]]

UriOracle == [kind |-> "uriOracle", lookups |-> <<>>]

\* CompositeOracle.lookup: the oracle added last is asked first
RECURSIVE CompositeOracle_lookup(_, _, _)
CompositeOracle_lookup(oracles, identifier, objectType) ==
    IF oracles = <<>> THEN None
    ELSE LET oracle == oracles[Len(oracles)]
             result == IF oracle.kind = "uriOracle"
                       THEN uriOracle_lookup(identifier, objectType)
                       ELSE ProfileOracle_lookup(oracle, identifier, objectType)
         IN IF result.status # "none" THEN result
            ELSE CompositeOracle_lookup(SubSeq(oracles, 1, Len(oracles) - 1),
                                        identifier, objectType)

\* CompositeOracle.add: oracles is an OrderedSet
add(oracles, oracle) ==
    IF \E i \in 1..Len(oracles) : oracles[i] = oracle THEN oracles
    ELSE Append(oracles, oracle)

\* adapt(concept) on the plain object an oracle returned: an Activity's
\* activityDefinition is a plain object or undefined, and neither has the
\* method delete; a Verb gives id and display; any other concept, and the
\* {id} of uriOracle, is returned as it is
adapt(concept) ==
    IF "type" \in DOMAIN concept /\ concept.type = "Activity" THEN Raise("TypeError")
    ELSE IF "type" \in DOMAIN concept /\ concept.type = "Verb"
    THEN Ok([id |-> concept.id, display |-> concept.prefLabel])
    ELSE Ok(concept)

\* BuilderRecord.lookup
lookup(oracles, identifier, objectType) ==
    LET found == CompositeOracle_lookup(oracles, identifier, objectType) IN
    IF found.status = "none" THEN Raise("Error")
    ELSE IF found.status # "ok" THEN found
    ELSE adapt(found.value)

\* the oracle of a builder made by builder(): _BuilderRecord's default
DefaultOracle == <<UriOracle>>

(***************************************************************************)
(* PatternRegistration                                                     *)
(***************************************************************************)
\* PatternRegistration.builder(profile_version, patterns, pattern)
PatternRegistration_builder(profile_version, patterns, pattern) ==
    [profile_version |-> profile_version, patterns |-> patterns,
     pattern |-> pattern, templates_so_far |-> <<>>]

\* _checkNextMatch: throws unless the sequence with template added is possible
_checkNextMatch(occ, template) ==
    LET sequence == occ.templates_so_far \o <<template>>
        possible == _sequencePossible(occ.patterns, sequence, occ.pattern.id)
    IN IF possible = "true" THEN "ok"
       ELSE IF possible = "false" THEN "Error"
       ELSE "TypeError"

\* recordTemplate: the push mutates the array held by the occurrence
recordTemplate_pushFirst(occ, template) ==
    [status |-> _checkNextMatch(occ, template.id),
     occ |-> [occ EXCEPT !.templates_so_far = Append(@, template.id)]]

recordTemplate_pushTwice(occ, template) ==
    LET checked == _checkNextMatch(occ, template.id) IN
    IF checked # "ok" THEN [status |-> checked, occ |-> occ]
    ELSE [status |-> "ok",
          occ |-> [occ EXCEPT !.templates_so_far = Append(Append(@, template.id), template.id)]]

recordTemplate(occ, template) ==
    LET checked == _checkNextMatch(occ, template.id) IN
    IF checked # "ok" THEN [status |-> checked, occ |-> occ]
    ELSE [status |-> "ok",
          occ |-> [occ EXCEPT !.templates_so_far = Append(@, template.id)]]

(***************************************************************************)
(* The document of a builder (its map) is modelled flat: a function from   *)
(* the paths that are set to their values.                                 *)
(***************************************************************************)
EmptyMap == [p \in {} |-> undefined]

setIn(map, path, value) ==
    [p \in DOMAIN map \cup {path} |-> IF p = path THEN value ELSE map[p]]

deleteAll(map, paths) == [p \in DOMAIN map \ paths |-> map[p]]

\* the properties of an Agent or Group that the model follows
AgentKeys == {"objectType", "name", "mbox", "mbox_sha1sum", "openid", "account", "member"}
\* the places of a statement that hold an Agent or Group
AgentLocations == {"actor", "authority", "object", "context.instructor", "context.team"}

\* the paths of a statement stored as the object of another that the model
\* follows
NestedPaths ==
    {"objectType", "id", "timestamp", "version", "verb.id", "result.response",
     "authority.objectType", "authority.mbox"}

\* the keys the model follows in the map stored at a place
KeysUnder(location) ==
    IF location = "object" THEN AgentKeys \cup NestedPaths ELSE AgentKeys

\* the paths of the model under each key that is set as a whole
PathsUnder(key) ==
    CASE key = "verb" -> {"verb.id", "verb.display"}
      [] key \in AgentLocations -> {key} \cup {key \o "." \o k : k \in KeysUnder(key)}
      [] OTHER -> {key}

\* a property of an object, undefined when the object does not have it
prop(object, name) == IF name \in DOMAIN object THEN object[name] ELSE undefined

NoTemplate == [id |-> undefined]
RegistrationUuid == "uuid of the registration"
SubregistrationValue == "profile and subregistration"

\* BuilderRecord.builder() of StatementBuilder, without a base value
StatementBuilder_builder ==
    [class |-> "StatementBuilder", template |-> NoTemplate, map |-> EmptyMap]

\* the next call of a chain is made when the call before it has returned
Then(r, F(_)) == IF r.status = "ok" THEN F(r.value) ELSE Raise(r.status)

\* StatementBuilder.withVerb with a string: looked up with the builder's own
\* oracle, which for a fresh builder is the default one
withVerb(builder, verb) ==
    Then(lookup(DefaultOracle, verb, "Verb"),
         LAMBDA fullVerb :
            Ok([builder EXCEPT !.map =
                setIn(deleteAll(@, PathsUnder("verb")), "verb.id", fullVerb.id)]))

\* ActivityBuilder.withType through StatementBuilder.withObjectType
withObjectType(builder, type) ==
    Then(lookup(DefaultOracle, type, "ActivityType"),
         LAMBDA activityType :
            Ok([builder EXCEPT !.map =
                setIn(setIn(@, "object.objectType", "Activity"),
                      "object.definition.type", activityType.id)]))

\* StatementBuilder.templated with a template object: verb and
\* objectActivityType are set, the builder becomes a TemplateBuilder
templated_plain(builder, template) ==
    Then(IF prop(template, "verb") # undefined
         THEN withVerb(builder, prop(template, "verb")) ELSE Ok(builder),
         LAMBDA s1 :
            Then(IF prop(template, "objectActivityType") # undefined
                 THEN withObjectType(s1, prop(template, "objectActivityType")) ELSE Ok(s1),
                 LAMBDA s2 : Ok(s2)))

templated(builder, template) ==
    Then(IF prop(template, "verb") # undefined
         THEN withVerb(builder, prop(template, "verb")) ELSE Ok(builder),
         LAMBDA s1 :
            Then(IF prop(template, "objectActivityType") # undefined
                 THEN withObjectType(s1, prop(template, "objectActivityType")) ELSE Ok(s1),
                 LAMBDA s2 :
                    Ok([s2 EXCEPT !.class = "TemplateBuilder", !.template = template])))

withPath(builder, path, value) == [builder EXCEPT !.map = setIn(@, path, value)]

\* StatementBuilder.withRegistration
withRegistration(builder, uuid) == withPath(builder, "context.registration", uuid)

\* StatementBuilder.withExtension: the value is set at [location, extension.id]
withExtension(builder, location, key, value) ==
    Then(lookup(DefaultOracle, key, "ContextExtension"),
         LAMBDA extension : Ok(withPath(builder, location, value)))

\* ActivityBuilder.builder().withId(id)
ActivityBuilder_withId(id) ==
    Then(lookup(DefaultOracle, id, "Activity"),
         LAMBDA activity : Ok([objectType |-> "Activity", id |-> activity.id]))

\* StatementBuilder.withContextActivity with an ActivityBuilder
withContextActivity(builder, variety, activity) ==
    LET path == IF variety = "category" THEN "context.contextActivities.category"
                ELSE "context.contextActivities.other"
        activities == IF path \in DOMAIN builder.map THEN builder.map[path] ELSE <<>>
    IN withPath(builder, path, Append(activities, activity))

\* 'mailto:' + email
Mailto(email) == <<"mailto:", email>>

\* AgentBuilder.builder(value): value is the map stored at a place of a
\* statement, or nothing; objectType is Agent unless it is set
AgentBuilder_builder(value) ==
    IF "objectType" \in DOMAIN value THEN value ELSE setIn(value, "objectType", "Agent")

\* AgentBuilder.withIdentifier: the identifier set takes the place of any other
withIdentifier(agent, ifi, value) ==
    setIn(deleteAll(agent, {"mbox", "mbox_sha1sum", "openid", "account"}), ifi, value)

\* AgentBuilder.withMember: a Group, with the agent added to its members
withMember(agent, member) ==
    setIn(setIn(agent, "objectType", "Group"), "member",
          Append(IF "member" \in DOMAIN agent THEN agent["member"] ELSE <<>>,
                 AgentBuilder_builder(member)))

\* AgentBuilder.withHomePage: the account is deleted and made again of the
\* home page
withHomePage(agent, homePage) ==
    setIn(deleteAll(agent, {"account"}), "account", [k \in {"homePage"} |-> homePage])

\* AgentBuilder.withAccountName: the name is set in the account, made if
\* there is none
withAccountName(agent, name) ==
    setIn(agent, "account",
          [k \in (IF "account" \in DOMAIN agent THEN DOMAIN agent["account"] ELSE {})
                 \cup {"name"} |->
              IF k = "name" THEN name ELSE agent["account"][k]])

\* agent[method](...args) for the methods of AgentBuilder the model follows
AgentBuilder_call(agent, method, arg) ==
    CASE method = "withEmail" -> withIdentifier(agent, "mbox", Mailto(arg))
      [] method = "withMbox" -> withIdentifier(agent, "mbox", arg)
      [] method = "withMbox_sha1sum" -> withIdentifier(agent, "mbox_sha1sum", arg)
      [] method = "withOpenid" -> withIdentifier(agent, "openid", arg)
      [] method = "withAccount" -> withIdentifier(agent, "account", arg)
      [] method = "withHomePage" -> withHomePage(agent, arg)
      [] method = "withAccountName" -> withAccountName(agent, arg)
      [] method = "withName" -> setIn(agent, "name", arg)
      [] method = "asGroup" -> setIn(agent, "objectType", "Group")
      [] OTHER -> withMember(agent, arg)

\* this.getIn(path) of a place that holds an agent: its map, without the
\* place in front of the keys
agentAt(map, location) ==
    [k \in {key \in KeysUnder(location) : location \o "." \o key \in DOMAIN map} |->
        map[location \o "." \o k]]

\* StatementBuilder.withAgent: the agent's map is set at the place as a whole
withAgent(builder, location, agent) ==
    [builder EXCEPT !.map =
        [p \in (DOMAIN builder.map \ PathsUnder(location))
                \cup {location \o "." \o k : k \in DOMAIN agent} |->
            IF p \in PathsUnder(location)
            THEN agent[CHOOSE k \in DOMAIN agent : p = location \o "." \o k]
            ELSE builder.map[p]]]

\* StatementBuilder.withAgentMethod: the method is applied to an AgentBuilder
\* of the agent stored at the place, and the result stored there
withAgentMethod_fresh(builder, location, method, arg) ==
    withAgent(builder, location,
              AgentBuilder_call(AgentBuilder_builder(EmptyMap), method, arg))

withAgentMethod(builder, location, method, arg) ==
    withAgent(builder, location,
              AgentBuilder_call(AgentBuilder_builder(agentAt(builder.map, location)),
                                method, arg))

\* the with<Role>Email shortcuts of StatementBuilder
withAgentEmail(builder, location, email) ==
    withAgentMethod(builder, location, "withEmail", email)

\* StatementBuilder.asSubStatement: a SubStatementBuilder of the same map
\* without id, timestamp, version and authority
asSubStatement_keeping(builder) ==
    [class |-> "SubStatementBuilder", template |-> NoTemplate,
     map |-> setIn(builder.map, "objectType", "SubStatement")]

asSubStatement(builder) ==
    [class |-> "SubStatementBuilder", template |-> NoTemplate,
     map |-> deleteAll(setIn(builder.map, "objectType", "SubStatement"),
                       {"id", "timestamp", "version"} \cup PathsUnder("authority"))]

(***************************************************************************)
(* Statement Template validation: the TemplateBuilder of templated().      *)
(***************************************************************************)
\* the JSONPath expressions of the model and the path each one addresses
PathOf(expression) ==
    CASE expression = "$.result.success" -> "result.success"
      [] expression = "$.result.response" -> "result.response"
      [] expression = "$.verb.id" -> "verb.id"
      [] OTHER -> "actor.mbox"

\* jsonpath.query(js, expression): the values matched, in order
query(js, expression) ==
    IF PathOf(expression) \in DOMAIN js THEN <<js[PathOf(expression)]>> ELSE <<>>

RECURSIVE concat(_)
concat(arrays) == IF arrays = <<>> THEN <<>> ELSE Head(arrays) \o concat(Tail(arrays))

\* _.split(string, '|'): a string is the sequence of its expressions and
\* separators
split(string, separator) == SelectSeq(string, LAMBDA token : token # separator)

\* TemplateBuilder._multipath
_multipath(js, expressions) ==
    concat([i \in 1..Len(expressions) |-> query(js, expressions[i])])

Range(array) == {array[i] : i \in 1..Len(array)}
intersection(array, values) == SelectSeq(array, LAMBDA v : v \in Range(values))
difference(array, values) == SelectSeq(array, LAMBDA v : v \notin Range(values))

\* the any / all / none checks of _checkRule
checkValues(rule, matchables, has_unmatchable) ==
    IF "any" \in DOMAIN rule /\ intersection(rule.any, matchables) = <<>>
    THEN "must have at least one value from any"
    ELSE IF "all" \in DOMAIN rule /\ difference(rule.all, matchables) # <<>>
    THEN "must not include any values that aren't from all"
    ELSE IF "all" \in DOMAIN rule /\ has_unmatchable
    THEN "must not include any unmatchable values"
    ELSE IF "none" \in DOMAIN rule /\ intersection(rule.none, matchables) # <<>>
    THEN "must not include any of none"
    ELSE "ok"

\* the presence checks of _checkRule, then the value checks
checkPresence_skipped(rule, matchables, has_unmatchable) ==
    IF prop(rule, "presence") = "excluded" /\ matchables # <<>>
    THEN "must not include any values"
    ELSE IF \/ prop(rule, "presence") = undefined
            \/ prop(rule, "presence") = "included"
            \/ prop(rule, "presence") = "recommended" /\ matchables # <<>>
    THEN checkValues(rule, matchables, has_unmatchable)
    ELSE "ok"

\* a check that goes on to the values for an excluded rule as well
checkPresence_excludedValues(rule, matchables, has_unmatchable) ==
    IF prop(rule, "presence") = "included" /\ matchables = <<>>
    THEN "must include at least one value"
    ELSE IF prop(rule, "presence") = "included" /\ has_unmatchable
    THEN "must not include any unmatchable values"
    ELSE IF prop(rule, "presence") = "excluded" /\ matchables # <<>>
    THEN "must not include any values"
    ELSE checkValues(rule, matchables, has_unmatchable)

checkPresence(rule, matchables, has_unmatchable) ==
    IF prop(rule, "presence") = "included" /\ matchables = <<>>
    THEN "must include at least one value"
    ELSE IF prop(rule, "presence") = "included" /\ has_unmatchable
    THEN "must not include any unmatchable values"
    ELSE IF prop(rule, "presence") = "excluded" /\ matchables # <<>>
    THEN "must not include any values"
    ELSE IF \/ prop(rule, "presence") = undefined
            \/ prop(rule, "presence") = "included"
            \/ prop(rule, "presence") = "recommended" /\ matchables # <<>>
    THEN checkValues(rule, matchables, has_unmatchable)
    ELSE "ok"

\* the selector of a rule, applied to each value the location matched
selectEach(values, selectors) ==
    [i \in 1..Len(values) |-> _multipath(values[i], selectors)]

\* TemplateBuilder._checkRule: "ok" or the message of the error thrown
_checkRule(js, rule) ==
    IF prop(rule, "selector") # undefined
    THEN checkPresence(rule,
            concat(selectEach(_multipath(js, split(rule.location, "|")),
                              split(rule.selector, "|"))),
            \E i \in 1..Len(_multipath(js, split(rule.location, "|"))) :
                selectEach(_multipath(js, split(rule.location, "|")),
                           split(rule.selector, "|"))[i] = <<>>)
    ELSE checkPresence(rule, _multipath(js, split(rule.location, "|")), FALSE)

\* for(let rule of template.rules)
RECURSIVE checkRules(_, _)
checkRules(js, rules) ==
    IF rules = <<>> THEN "ok"
    ELSE IF _checkRule(js, Head(rules)) # "ok" THEN _checkRule(js, Head(rules))
    ELSE checkRules(js, Tail(rules))

\* _.get(js, path) of a leaf of the document
getPath(js, path) == IF path \in DOMAIN js THEN js[path] ELSE undefined

\* the usageType of each attachment of the document
usageTypes(js) ==
    IF "attachments" \in DOMAIN js
    THEN [i \in 1..Len(js["attachments"]) |-> js["attachments"][i].usageType]
    ELSE <<>>

\* TemplateBuilder.validate: "ok" or the message of the first error thrown.
\* The context activity types are read under the key written in the source,
\* "context${capitalized}ActivityType", which is not a template literal.
validate(js, tmpl) ==
    IF prop(tmpl, "verb") # undefined /\ prop(tmpl, "verb") # getPath(js, "verb.id")
    THEN "verb id must be"
    ELSE IF /\ prop(tmpl, "objectActivityType") # undefined
            /\ prop(tmpl, "objectActivityType") # getPath(js, "object.definition.type")
    THEN "object activity type must be"
    ELSE IF "context${capitalized}ActivityType" \in DOMAIN tmpl
    THEN "context activity types must include all of"
    ELSE IF /\ "attachmentUsageType" \in DOMAIN tmpl
            /\ difference(tmpl.attachmentUsageType, usageTypes(js)) # <<>>
    THEN "attachment usage types must include all of"
    ELSE IF /\ "objectStatementRefTemplate" \in DOMAIN tmpl
            /\ getPath(js, "object.objectType") # "StatementRef"
    THEN "object must be a StatementRef"
    ELSE IF /\ "contextStatementRefTemplate" \in DOMAIN tmpl
            /\ "context.statement" \notin DOMAIN js
    THEN "the context statement must be present"
    ELSE IF "rules" \in DOMAIN tmpl THEN checkRules(js, tmpl.rules)
    ELSE "ok"

\* the values uuidv1() and new Date().toISOString() give from call to call
Uuids == {"uuid 1", "uuid 2"}
Times == {"time 1", "time 2"}

\* record.merge(other) of two BuilderRecords: each field of other, the map
\* as a whole among them, takes the place of the record's
Record_merge_deep(record, other) ==
    [other EXCEPT !.map =
        [p \in DOMAIN record.map \cup DOMAIN other.map |->
            IF p \in DOMAIN other.map THEN other.map[p] ELSE record.map[p]]]

Record_merge(record, other) == other

\* StatementBuilder.prebuild: the record made of id and timestamp is merged
\* with this; AgentBuilder and the other builders return this
prebuild(builder, uuid, timestamp) ==
    IF builder.class \in {"StatementBuilder", "SubStatementBuilder", "TemplateBuilder"}
    THEN Record_merge([class |-> "BuilderRecord", template |-> NoTemplate,
                       map |-> setIn(setIn(EmptyMap, "id", uuid), "timestamp", timestamp)],
                      builder)
    ELSE builder

\* BuilderRecord.build: validate is that of the builder's class; js is the
\* document returned
build(builder, uuid, timestamp) ==
    IF builder.class = "TemplateBuilder"
    THEN (IF validate(prebuild(builder, uuid, timestamp).map, builder.template) = "ok"
          THEN [status |-> "ok", error |-> "none",
                js |-> prebuild(builder, uuid, timestamp).map]
          ELSE [status |-> "Error", js |-> EmptyMap,
                error |-> validate(prebuild(builder, uuid, timestamp).map, builder.template)])
    ELSE [status |-> "ok", error |-> "none", js |-> prebuild(builder, uuid, timestamp).map]

(***************************************************************************)
(* ProfileRegistration                                                     *)
(***************************************************************************)
EmptyLookups ==
    [profile_patterns |-> EmptyMap, pattern_profiles |-> EmptyMap,
     current_versions |-> EmptyMap]

\* ProfileRegistration.builder()
ProfileRegistration_builder == [oracle |-> DefaultOracle, lookups |-> EmptyLookups]

\* mergeDeep of a map into another; no key of the model is merged twice
\* with different values
merge(old, new) ==
    [k \in DOMAIN old \cup DOMAIN new |-> IF k \in DOMAIN new THEN new[k] ELSE old[k]]

\* new Map(pairs): of the pairs with one key the last one stays
MapOfPairs(pairs) ==
    [k \in {pairs[i][1] : i \in 1..Len(pairs)} |->
        pairs[CHOOSE i \in 1..Len(pairs) :
                /\ pairs[i][1] = k
                /\ \A j \in 1..Len(pairs) : pairs[j][1] = k => j <= i][2]]

\* ProfileRegistration.withProfile
withProfile(registration, profile) ==
    LET patterns == profile.patterns
        all == profile.concepts \o profile.templates \o patterns
    IN IF all = <<>> THEN Raise("TypeError")   \* [][0].inScheme
       ELSE LET current == all[1].inScheme
                profile_patterns == MapOfPairs(
                    [i \in 1..Len(patterns) |->
                        <<profile.id, MapOfPairs(<< <<patterns[i].id, patterns[i].node>> >>)>>])
                pattern_profiles == MapOfPairs(
                    [i \in 1..Len(patterns) |-> <<patterns[i].id, profile.id>>])
                current_versions == MapOfPairs(<< <<profile.id, current>> >>)
            IN Ok([oracle |-> add(registration.oracle, fromProfile(profile)),
                   lookups |->
                     [profile_patterns |->
                        merge(registration.lookups.profile_patterns, profile_patterns),
                      pattern_profiles |->
                        merge(registration.lookups.pattern_profiles, pattern_profiles),
                      current_versions |->
                        merge(registration.lookups.current_versions, current_versions)]])

\* getIn(['map', 'lookups', table, key])
getLookup(registration, table, key, notSet) ==
    IF key \in DOMAIN registration.lookups[table]
    THEN registration.lookups[table][key] ELSE notSet

\* ProfileRegistration.pattern
pattern(registration, name) ==
    LET found == lookup(registration.oracle, name, "Pattern") IN
    IF found.status # "ok" THEN Raise(found.status)
    ELSE LET profile == getLookup(registration, "pattern_profiles", found.value.id, undefined)
             patterns == getLookup(registration, "profile_patterns", profile, EmptyMap)
             profile_version == getLookup(registration, "current_versions", profile, undefined)
         IN Ok(PatternRegistration_builder(profile_version, patterns, [id |-> found.value.id]))

\* the chain of builder calls at the end of ProfileRegistration.template
prefill(occ, template) ==
    Then(templated(StatementBuilder_builder, template),
         LAMBDA s1 :
    Then(Ok(withRegistration(s1, RegistrationUuid)),
         LAMBDA s2 :
    Then(withExtension(s2, "context.ext:subregistration",
                       SubregistrationUri, SubregistrationValue),
         LAMBDA s3 :
    Then(ActivityBuilder_withId(occ.profile_version),
         LAMBDA category :
            Ok(withContextActivity(s3, "category", category))))))

NoBuilder == [class |-> "none", template |-> NoTemplate, map |-> EmptyMap]

\* what ProfileRegistration.template leaves: how it ended and where, the
\* template id it resolved, the occurrence and the builder returned
Left(status, stage, id, occ, builder) ==
    [status |-> status, stage |-> stage, id |-> id, occ |-> occ, builder |-> builder]

templateFilled(recorded, found, filled) ==
    IF filled.status # "ok"
    THEN Left(filled.status, "prefill", found.id, recorded.occ, NoBuilder)
    ELSE Left("ok", "returned", found.id, recorded.occ, filled.value)

templateRecorded(recorded, found) ==
    IF recorded.status # "ok"
    THEN Left(recorded.status, "recordTemplate", found.id, recorded.occ, NoBuilder)
    ELSE templateFilled(recorded, found, prefill(recorded.occ, found))

templateFound(found, occ) ==
    IF found.status # "ok"
    THEN Left(found.status, "lookup", undefined, occ, NoBuilder)
    ELSE templateRecorded(recordTemplate(occ, found.value), found.value)

\* ProfileRegistration.template(name, pattern)
template(registration, name, occ) ==
    templateFound(lookup(registration.oracle, name, "StatementTemplate"), occ)

(***************************************************************************)
(* The pattern sets _matches is checked on: p1 may refer to p2 and to      *)
(* templates, p2 to templates only (no cyclic references).                 *)
(***************************************************************************)
ListKinds == {"sequence", "alternates"}
UnaryKinds == {"oneOrMore", "zeroOrMore", "optional"}

Nodes(ids) ==
    {[kind |-> k, children |-> c] : k \in ListKinds, c \in SeqUpTo(ids, MaxChildren)}
    \cup {[kind |-> k, children |-> <<c>>] : k \in UnaryKinds, c \in ids}
    \cup {[kind |-> "none", children |-> <<>>]}

PatternSets ==
    {[p \in PatternIds |-> IF p = "p1" THEN n1 ELSE n2] :
        n1 \in Nodes(TemplateIds \cup {"p2"}), n2 \in Nodes(TemplateIds)}

(***************************************************************************)
(* The profiles handed to withProfile.  Template a comes with each kind of *)
(* verb (none, a URI, a name), template b without one; a profile declares  *)
(* no pattern, p1, or p1 followed by p2.                                   *)
(***************************************************************************)
Defined(label) == [defined |-> TRUE, values |-> {label}]

TemplateConcept(id, verb, rules) ==
    [id |-> id, type |-> "StatementTemplate", prefLabel |-> Defined(PrefLabel[id]),
     inScheme |-> VersionId, verb |-> verb, rules |-> rules]

PatternOf(id, node) ==
    [id |-> id, type |-> "Pattern", prefLabel |-> Defined(PrefLabel[id]),
     inScheme |-> VersionId, node |-> node]

Verbs == {undefined, VerbUri, VerbName}

TemplateLists ==
    {<<>>, <<TemplateConcept("b", undefined, <<>>)>>}
    \cup {<<TemplateConcept("a", v, <<>>)>> : v \in Verbs}
    \cup {<<TemplateConcept("a", v, <<>>), TemplateConcept("b", undefined, <<>>)>> : v \in Verbs}

PatternLists ==
    {<<>>}
    \cup {<<PatternOf("p1", n)>> : n \in Nodes(TemplateIds \cup {"p2"})}
    \cup {<<PatternOf("p1", n1), PatternOf("p2", n2)>> :
            n1 \in Nodes(TemplateIds \cup {"p2"}), n2 \in Nodes(TemplateIds \cup {"p1"})}

Profiles ==
    {[id |-> ProfileId, concepts |-> <<>>, templates |-> ts, patterns |-> ps] :
        ts \in TemplateLists, ps \in PatternLists}

\* the names the caller asks for
PatternNames == PatternIds \cup {PrefLabel[i] : i \in PatternIds} \cup {UnknownName}
TemplateNames ==
    TemplateIds \cup {PrefLabel[i] : i \in TemplateIds} \cup {UpperName, UnknownName}

\* the slots in which the caller keeps its pattern occurrences
Slots == {"o1"}
NoOcc == [profile_version |-> undefined, patterns |-> EmptyMap,
          pattern |-> [id |-> undefined], templates_so_far |-> <<>>]
NoHistory == [origin |-> "none", calls |-> {}]
NoCall == [op |-> "none", status |-> "ok", stage |-> "none", id |-> undefined,
           slot |-> "none", before |-> <<>>]

MatchIdle ==
    /\ mpatterns = EmptyMap
    /\ mseq = <<>>
    /\ melem = undefined
    /\ mres = Undefined
    /\ mpc = "idle"

RegistryIdle ==
    /\ reg = ProfileRegistration_builder
    /\ occs = [o \in Slots |-> NoOcc]
    /\ accepted = [o \in Slots |-> <<>>]
    /\ stmt = NoBuilder
    /\ hist = NoHistory
    /\ out = NoCall

InitMatch ==
    /\ mpatterns \in PatternSets
    /\ mseq \in SeqUpTo(TemplateIds, MaxLen)
    /\ melem \in PatternIds \cup TemplateIds
    /\ mres = Undefined
    /\ mpc = "call"
    /\ RegistryIdle

\* one call of _matches(statements, element) on an occurrence
Match ==
    /\ mpc = "call"
    /\ mres' = _matches(mpatterns, mseq, melem)
    /\ mpc' = "done"
    /\ UNCHANGED <<mpatterns, mseq, melem>>
    /\ UNCHANGED rvars

NextMatch == Match

SpecMatch == InitMatch /\ [][NextMatch]_vars

(***************************************************************************)
(* The registry: a profile is registered, pattern occurrences are taken    *)
(* and statements are asked for by template.                               *)
(***************************************************************************)
Init == MatchIdle /\ RegistryIdle

\* registration = registration.withProfile(profile); a profile is registered
\* once
WithProfileOf(profiles) ==
    /\ ProfileId \notin DOMAIN reg.lookups.current_versions
    /\ \E profile \in profiles :
        LET r == withProfile(reg, profile) IN
        /\ reg' = IF r.status = "ok" THEN r.value ELSE reg
        /\ out' = [NoCall EXCEPT !.op = "withProfile", !.status = r.status]
    /\ UNCHANGED <<occs, accepted, stmt, hist>>
    /\ UNCHANGED mvars

WithProfile == WithProfileOf(Profiles)

\* the array recordTemplate pushes to is the one made by the call of
\* PatternRegistration.builder that made the occurrence: no other occurrence
\* holds it
pushTo_shared(all, o, occ) ==
    [p \in DOMAIN all |->
        IF p = o THEN occ
        ELSE IF all[p] = NoOcc THEN all[p]
        ELSE [all[p] EXCEPT !.templates_so_far = occ.templates_so_far]]

pushTo(all, o, occ) == [all EXCEPT ![o] = occ]

\* occs[o] = registration.pattern(name)
PatternIn(slots, names) ==
    /\ \E o \in slots, name \in names :
        /\ occs[o] = NoOcc
        /\ LET r == pattern(reg, name) IN
           /\ occs' = IF r.status = "ok" THEN [occs EXCEPT ![o] = r.value] ELSE occs
           /\ out' = [NoCall EXCEPT !.op = "pattern", !.status = r.status, !.slot = o]
    /\ UNCHANGED <<reg, accepted, stmt, hist>>
    /\ UNCHANGED mvars

Pattern == PatternIn(Slots, PatternNames)

\* stmt = registration.template(name, occs[o])
TemplateIn(slots, names) ==
    /\ \E o \in slots, name \in names :
        /\ occs[o] # NoOcc
        /\ Len(occs[o].templates_so_far) < MaxLen
        /\ LET r == template(reg, name, occs[o]) IN
           /\ occs' = pushTo(occs, o, r.occ)
           /\ accepted' = IF r.stage \in {"prefill", "returned"}
                          THEN [accepted EXCEPT ![o] = Append(@, r.id)]
                          ELSE accepted
           /\ stmt' = IF r.status = "ok" THEN r.builder ELSE stmt
           /\ hist' = IF r.status = "ok" THEN [origin |-> "template", calls |-> {}] ELSE hist
           /\ out' = [op |-> "template", status |-> r.status, stage |-> r.stage,
                      id |-> r.id, slot |-> o, before |-> occs[o].templates_so_far]
    /\ UNCHANGED reg
    /\ UNCHANGED mvars

Template == TemplateIn(Slots, TemplateNames)

Next == WithProfile \/ Pattern \/ Template

Spec == Init /\ [][Next]_vars

(***************************************************************************)
(* Templated statements: a builder is made by templated() or by            *)
(* template() on an occurrence of the pattern zeroOrMore(a), calls are     *)
(* made on it and it is built.                                             *)
(***************************************************************************)
Locations ==
    {<<"$.result.success">>, <<"$.result.response">>,
     <<"$.result.success", "|", "$.result.response">>}

Rules == {[location |-> l, presence |-> p] : l \in Locations, p \in {"included", "excluded"}}

\* templates with one rule, and at most a verb
RuleTemplates ==
    {TemplateConcept("a", v, <<r>>) : v \in {undefined, VerbUri}, r \in Rules}

RuleProfiles ==
    {[id |-> ProfileId, concepts |-> <<>>, templates |-> <<t>>,
      patterns |-> <<PatternOf("p1", [kind |-> "zeroOrMore", children |-> <<"a">>])>>] :
        t \in RuleTemplates}

Responses == {"yes"}
Emails == {"orange@example.org"}

\* stmt = StatementBuilder.builder().templated(t), t a template object
Templated ==
    /\ stmt = NoBuilder
    /\ \E t \in RuleTemplates :
        LET r == templated(StatementBuilder_builder, t) IN
        /\ stmt' = IF r.status = "ok" THEN r.value ELSE stmt
        /\ hist' = IF r.status = "ok" THEN [origin |-> "templated", calls |-> {}] ELSE hist
        /\ out' = [NoCall EXCEPT !.op = "templated", !.status = r.status]
    /\ UNCHANGED <<reg, occs, accepted>>
    /\ UNCHANGED mvars

\* stmt = stmt.<call>(...): the call returns the builder next
Call(name, next) ==
    /\ stmt # NoBuilder
    /\ stmt' = next
    /\ hist' = [hist EXCEPT !.calls = @ \cup {name}]
    /\ out' = [NoCall EXCEPT !.op = name]
    /\ UNCHANGED <<reg, occs, accepted>>
    /\ UNCHANGED mvars

AsSucceeded == Call("asSucceeded", withPath(stmt, "result.success", "true"))
AsFailed == Call("asFailed", withPath(stmt, "result.success", "false"))
WithResponse == \E r \in Responses : Call("withResponse", withPath(stmt, "result.response", r))
WithActorEmail == \E e \in Emails : Call("withActorEmail", withAgentEmail(stmt, "actor", e))
AsSubStatement == Call("asSubStatement", asSubStatement(stmt))

\* stmt.build()
Build ==
    /\ stmt # NoBuilder
    /\ \E uuid \in Uuids, timestamp \in Times :
        out' = [NoCall EXCEPT !.op = "build",
                              !.status = build(stmt, uuid, timestamp).status,
                              !.stage = build(stmt, uuid, timestamp).error]
    /\ UNCHANGED <<reg, occs, accepted, stmt, hist>>
    /\ UNCHANGED mvars

\* the caller takes one builder, from the registry or from templated()
WithProfileT == stmt = NoBuilder /\ WithProfileOf(RuleProfiles)
PatternT == stmt = NoBuilder /\ Pattern
TemplateT == stmt = NoBuilder /\ Template

NextTemplate ==
    \/ WithProfileT \/ PatternT \/ TemplateT \/ Templated
    \/ AsSucceeded \/ AsFailed \/ WithResponse \/ WithActorEmail \/ AsSubStatement
    \/ Build

SpecTemplate == Init /\ [][NextTemplate]_vars

(***************************************************************************)
(* Claims about _matches, checked under SpecMatch.                         *)
(***************************************************************************)
\* the call under check is over, and was made on a pattern of the given kind
DoneOn(kind) ==
    /\ mpc = "done"
    /\ melem \in DOMAIN mpatterns
    /\ mpatterns[melem].kind = kind

\* what _matches gives for the i-th child of the pattern under check on s
ChildResult(i, s) == _matches(mpatterns, s, mpatterns[melem].children[i])

Succeeded(r) == r.type = "return" /\ r.success = SUCCESS

\* the children of the pattern under check that succeed on the original sequence
AltSuccessful ==
    {i \in 1..Len(mpatterns[melem].children) : Succeeded(ChildResult(i, mseq))}

\* C6: an Alternates pattern with at least one successful child returns
\* Success with the remainder of the successful child that leaves the fewest
\* elements; Alternates([a, Sequence([a, b])]) on [a, b] and
\* Alternates([a, b]) on [a] return Success with an empty remainder.
C6_AlternatesFewestLeftover ==
    (DoneOn("alternates") /\ AltSuccessful # {}) =>
        /\ Succeeded(mres)
        /\ \E i \in AltSuccessful :
            /\ mres.remaining = ChildResult(i, mseq).remaining
            /\ \A j \in AltSuccessful :
                Len(ChildResult(i, mseq).remaining) <= Len(ChildResult(j, mseq).remaining)

\* the remainders a Sequence pattern hands from child to child: rem[i] is what
\* is left after children 1..i, as long as they all succeed
SeqRemainders ==
    LET children == mpatterns[melem].children
        rem[i \in 0..Len(children)] ==
            IF i = 0 THEN mseq
            ELSE IF Succeeded(_matches(mpatterns, rem[i - 1], children[i]))
                 THEN _matches(mpatterns, rem[i - 1], children[i]).remaining
                 ELSE <<>>
    IN rem

\* the first child of the Sequence pattern that does not succeed (0: none)
SeqFirstStop ==
    LET children == mpatterns[melem].children
        stops == {i \in 1..Len(children) :
                    ~ Succeeded(ChildResult(i, SeqRemainders[i - 1]))}
    IN IF stops = {} THEN 0 ELSE CHOOSE i \in stops : \A j \in stops : i <= j

\* C7: on a template id (no key of the pattern set) _matches returns Partial
\* with empty remainder on the empty sequence, Success with the tail when the
\* head is the template id, Failure with the whole sequence otherwise.
C7_TemplateLeaf ==
    (mpc = "done" /\ melem \notin DOMAIN mpatterns) =>
        /\ mseq = <<>> => mres = Return(PARTIAL, <<>>)
        /\ (mseq # <<>> /\ mseq[1] = melem) =>
            mres = Return(SUCCESS, SubSeq(mseq, 2, Len(mseq)))
        /\ (mseq # <<>> /\ mseq[1] # melem) => mres = Return(FAILURE, mseq)

C7_Witness ==
    /\ mpc = "done"
    /\ melem = "a"
    /\ mseq = <<"b", "a">>
    /\ mres = Return(FAILURE, <<"b", "a">>)

\* C8: a Sequence pattern matches its children left to right, each on the
\* remainder of the previous one: Success with the final remainder when all
\* succeed, Failure with the original sequence when a child fails, Partial
\* with empty remainder when a child is Partial.
C8_Sequence ==
    DoneOn("sequence") =>
        LET n == Len(mpatterns[melem].children)
            k == SeqFirstStop
        IN /\ k = 0 => mres = Return(SUCCESS, SeqRemainders[n])
           /\ (k > 0 /\ ChildResult(k, SeqRemainders[k - 1]) .type = "return"
                     /\ ChildResult(k, SeqRemainders[k - 1]).success = FAILURE)
                => mres = Return(FAILURE, mseq)
           /\ (k > 0 /\ ChildResult(k, SeqRemainders[k - 1]) .type = "return"
                     /\ ChildResult(k, SeqRemainders[k - 1]).success = PARTIAL)
                => mres = Return(PARTIAL, <<>>)

\* Sequence([a, b]) on [a, a]: the first child succeeds and consumes a, the
\* second fails, and the result is Failure with the whole input
C8_Witness ==
    /\ DoneOn("sequence")
    /\ mpatterns[melem].children = <<"a", "b">>
    /\ mseq = <<"a", "a">>
    /\ mres = Return(FAILURE, <<"a", "a">>)

\* s without its leading copies of t
RECURSIVE StripLeading(_, _)
StripLeading(t, s) ==
    IF s # <<>> /\ s[1] = t THEN StripLeading(t, SubSeq(s, 2, Len(s))) ELSE s

\* C9: ZeroOrMore(Leaf t) never fails: on n >= 0 copies of t followed by a
\* rest that does not start with t it returns Success with that rest.
C9_ZeroOrMoreLeaf ==
    (DoneOn("zeroOrMore") /\ mpatterns[melem].children[1] \notin DOMAIN mpatterns) =>
        mres = Return(SUCCESS, StripLeading(mpatterns[melem].children[1], mseq))

C9_Witness ==
    /\ DoneOn("zeroOrMore")
    /\ mpatterns[melem].children = <<"a">>
    /\ mseq = <<"a", "a", "b">>
    /\ mres = Return(SUCCESS, <<"b">>)

\* C10: OneOrMore(Leaf t) returns Partial with empty remainder on the empty
\* sequence and Failure with the input as remainder on a sequence whose
\* first element differs from t.
C10_OneOrMoreLeaf ==
    (DoneOn("oneOrMore") /\ mpatterns[melem].children[1] \notin DOMAIN mpatterns) =>
        /\ mseq = <<>> => mres = Return(PARTIAL, <<>>)
        /\ (mseq # <<>> /\ mseq[1] # mpatterns[melem].children[1]) =>
            mres = Return(FAILURE, mseq)

C10_Witness ==
    /\ DoneOn("oneOrMore")
    /\ mpatterns[melem].children = <<"a">>
    /\ mseq = <<"b", "a">>
    /\ mres = Return(FAILURE, <<"b", "a">>)

(***************************************************************************)
(* Claims about pattern occurrences, checked under Spec.                   *)
(***************************************************************************)
\* the last call was template(), and it got as far as recordTemplate
TemplateCalled == out.op = "template" /\ out.stage # "lookup"
\* recordTemplate threw
Rejected == out.op = "template" /\ out.stage = "recordTemplate"
\* recordTemplate returned
Recorded == out.op = "template" /\ out.stage \in {"prefill", "returned"}

\* C1: when recordTemplate rejects a template id, the occurrence's
\* templates_so_far is the same sequence after the call as before it.
C1_RejectLeavesSequence ==
    Rejected => occs[out.slot].templates_so_far = out.before

C1_Witness ==
    /\ Rejected
    /\ out.before # <<>>
    /\ occs[out.slot].templates_so_far = out.before

\* C2: when recordTemplate accepts template id t with templates_so_far = S,
\* afterwards templates_so_far is S followed by t; after any series of
\* template() calls the recorded sequence is the accepted ids in call order.
C2_AcceptAppendsOnce ==
    /\ Recorded => occs[out.slot].templates_so_far = out.before \o <<out.id>>
    /\ \A o \in Slots : occs[o].templates_so_far = accepted[o]

C2_Witness ==
    /\ Recorded
    /\ Len(out.before) >= 1
    /\ occs[out.slot].templates_so_far = out.before \o <<out.id>>

\* what _matches gives for the sequence the last template() call proposed
Proposed ==
    _matches(occs[out.slot].patterns, out.before \o <<out.id>>, occs[out.slot].pattern.id)

Acceptable ==
    /\ Proposed.type = "return"
    /\ \/ Proposed.success = SUCCESS /\ Proposed.remaining = <<>>
       \/ Proposed.success = PARTIAL

\* C3: template() / recordTemplate accepts a new template id t on recorded
\* sequence S if and only if _matches(S + [t], root pattern) is Success with
\* empty remainder or Partial; otherwise the call raises and returns no
\* builder.  For the pattern zeroOrMore(t2), a template other than t2 is
\* rejected.
C3_AcceptIffPossible ==
    TemplateCalled =>
        /\ Recorded <=> Acceptable
        /\ ~ Acceptable => (out.status # "ok" /\ Rejected)
        /\ \A t2 \in TemplateIds :
            (/\ occs[out.slot].pattern.id \in DOMAIN occs[out.slot].patterns
             /\ occs[out.slot].patterns[occs[out.slot].pattern.id]
                    = [kind |-> "zeroOrMore", children |-> <<t2>>]
             /\ out.id # t2) => Rejected

C3_Witness ==
    /\ Rejected
    /\ out.status = "Error"
    /\ out.id = "a"
    /\ occs[out.slot].pattern.id \in DOMAIN occs[out.slot].patterns
    /\ occs[out.slot].patterns[occs[out.slot].pattern.id]
            = [kind |-> "zeroOrMore", children |-> <<"b">>]

(***************************************************************************)
(* Claims about templated statements, checked under SpecTemplate.          *)
(***************************************************************************)
\* the builder held validates against a template whose rule has presence
\* 'included' and no selector
IncludedRule ==
    /\ stmt.class = "TemplateBuilder"
    /\ "rules" \in DOMAIN stmt.template
    /\ Len(stmt.template.rules) = 1
    /\ stmt.template.rules[1].presence = "included"
    /\ "selector" \notin DOMAIN stmt.template.rules[1]

\* the location of that rule matches at least one value of the document
LocationMatched ==
    \E i \in 1..Len(stmt.template.rules[1].location) :
        /\ stmt.template.rules[1].location[i] # "|"
        /\ PathOf(stmt.template.rules[1].location[i]) \in DOMAIN stmt.map

Built == out.op = "build"

\* the builder came from template() on an occurrence of zeroOrMore(a), for a
\* template a that has an 'included' rule and no determining property
FromPattern ==
    /\ hist.origin = "template"
    /\ \E o \in Slots :
        /\ occs[o].pattern.id \in DOMAIN occs[o].patterns
        /\ occs[o].patterns[occs[o].pattern.id]
                = [kind |-> "zeroOrMore", children |-> <<"a">>]
    /\ \E l \in Locations :
        reg.oracle[Len(reg.oracle)].lookups[1]
            = TemplateConcept("a", undefined, <<[location |-> l, presence |-> "included"]>>)

\* the template of the profile registered
Registered == reg.oracle[Len(reg.oracle)].lookups[1]

C5_IncludedRule ==
    (Built /\ IncludedRule) =>
        /\ ~ LocationMatched => out.status = "Error"
        /\ LocationMatched => out.stage # "must include at least one value"

C5_Witness ==
    /\ Built
    /\ IncludedRule
    /\ hist.origin = "templated"
    /\ ~ LocationMatched
    /\ "actor.mbox" \in DOMAIN stmt.map
    /\ out.status = "Error"
    /\ out.stage = "must include at least one value"

(***************************************************************************)
(* Rules with value lists: _checkRule on a document and a rule whose       *)
(* location names up to three places, each holding one value or none.      *)
(***************************************************************************)
Values == {"x", "y", "z"}
Places == <<"$.result.success", "$.result.response", "$.verb.id">>

\* the documents: each place holds a value or is absent
Documents ==
    UNION {[{PathOf(Places[i]) : i \in I} -> Values] : I \in SUBSET (1..Len(Places))}

\* location strings: one expression, or the three joined with '|'
ValueLocations ==
    {<<Places[1]>>, <<Places[1], "|", Places[2], "|", Places[3]>>}

ValueLists == {<<"x", "y">>, <<"x">>}

\* rules with all set, with each presence and without one
\* excluded rules that come with value sets
ExcludedRules ==
    {[location |-> l, presence |-> "excluded", any |-> a, all |-> a, none |-> <<"z">>] :
        l \in ValueLocations, a \in ValueLists}

ValueRules ==
    ExcludedRules \cup
    {[location |-> l, all |-> a] : l \in ValueLocations, a \in ValueLists}
    \cup {[location |-> l, all |-> a, presence |-> p] :
            l \in ValueLocations, a \in ValueLists,
            p \in {"included", "recommended", "excluded"}}

NoCheck == [op |-> "none", js |-> EmptyMap, rule |-> [location |-> <<>>], result |-> "ok"]

InitRule ==
    /\ MatchIdle
    /\ reg = ProfileRegistration_builder
    /\ occs = [o \in Slots |-> NoOcc]
    /\ accepted = [o \in Slots |-> <<>>]
    /\ stmt = NoBuilder
    /\ hist = NoHistory
    /\ out = NoCheck

\* this._checkRule(js, rule) of a TemplateBuilder
CheckRule ==
    /\ \E js \in Documents, rule \in ValueRules :
        out' = [op |-> "_checkRule", js |-> js, rule |-> rule,
                result |-> _checkRule(js, rule)]
    /\ UNCHANGED <<reg, occs, accepted, stmt, hist>>
    /\ UNCHANGED mvars

NextRule == CheckRule

SpecRule == InitRule /\ [][NextRule]_vars

(***************************************************************************)
(* Claims about value lists, checked under SpecRule.                       *)
(***************************************************************************)
\* the values the location of the rule checked matches in the document
Candidates ==
    {out.js[PathOf(out.rule.location[i])] :
        i \in {j \in 1..Len(out.rule.location) :
                /\ out.rule.location[j] # "|"
                /\ PathOf(out.rule.location[j]) \in DOMAIN out.js}}

\* the value checks apply to the rule checked, and its presence alone does
\* not raise
ValueChecksApply ==
    /\ out.op = "_checkRule"
    /\ "all" \in DOMAIN out.rule
    /\ \/ "presence" \notin DOMAIN out.rule
       \/ out.rule.presence = "included" /\ Candidates # {}
       \/ out.rule.presence = "recommended" /\ Candidates # {}

\* C11: for a rule with all set whose value checks apply, validation raises
\* if and only if the candidate set holds a value that is not listed in all.
C11_AllListed ==
    ValueChecksApply =>
        (out.result # "ok" <=> \E c \in Candidates : c \notin Range(out.rule.all))

\* all = [x, y] against the candidates [x, y, z] has been checked
C11_Witness ==
    /\ ValueChecksApply
    /\ out.rule.all = <<"x", "y">>
    /\ Candidates = {"x", "y", "z"}

(***************************************************************************)
(* Claims about patterns that refer to templates the profile lacks,        *)
(* checked under Spec.                                                     *)
(***************************************************************************)
\* the ids of the templates of the profile registered last
TemplatesLoaded ==
    {reg.oracle[Len(reg.oracle)].lookups[i].id :
        i \in {j \in 1..Len(reg.oracle[Len(reg.oracle)].lookups) :
                reg.oracle[Len(reg.oracle)].lookups[j].type = "StatementTemplate"}}

\* the root pattern of the occurrence is a pattern of its pattern set, and
\* refers to an id that is neither a pattern of the set nor a template of
\* the profile
Dangling(occ) ==
    /\ occ.pattern.id \in DOMAIN occ.patterns
    /\ \E i \in 1..Len(occ.patterns[occ.pattern.id].children) :
        /\ occ.patterns[occ.pattern.id].children[i] \notin DOMAIN occ.patterns
        /\ occ.patterns[occ.pattern.id].children[i] \notin TemplatesLoaded

\* C12: when a pattern of a registered profile refers to a template id that
\* the profile's templates lack, pattern() followed by template() on that
\* occurrence raises, for every template asked for and every pattern shape.
C12_DanglingRaises ==
    (out.op = "template" /\ Dangling(occs[out.slot])) => out.status # "ok"

\* zeroOrMore(a) in a profile whose only template is b: template b is refused
C12_Witness ==
    /\ out.op = "template"
    /\ Dangling(occs[out.slot])
    /\ occs[out.slot].patterns[occs[out.slot].pattern.id]
            = [kind |-> "zeroOrMore", children |-> <<"a">>]
    /\ TemplatesLoaded = {"b"}
    /\ out.id = "b"
    /\ out.status = "Error"

(***************************************************************************)
(* Two occurrences: the caller keeps two pattern occurrences of one        *)
(* registry and asks for templates on either, in any order.                *)
(***************************************************************************)
TwoSlots == {"o1", "o2"}

\* a profile with the templates a and b and one or two patterns over them
TwoNodes ==
    {[kind |-> "zeroOrMore", children |-> <<"a">>],
     [kind |-> "sequence", children |-> <<"a", "b">>]}

TwoProfiles ==
    {[id |-> ProfileId, concepts |-> <<>>,
      templates |-> <<TemplateConcept("a", undefined, <<>>),
                      TemplateConcept("b", undefined, <<>>)>>,
      patterns |-> ps] :
        ps \in {<<PatternOf("p1", n)>> : n \in TwoNodes}
               \cup {<<PatternOf("p1", n1), PatternOf("p2", n2)>> :
                        n1 \in TwoNodes, n2 \in TwoNodes}}

InitTwo ==
    /\ MatchIdle
    /\ reg = ProfileRegistration_builder
    /\ occs = [o \in TwoSlots |-> NoOcc]
    /\ accepted = [o \in TwoSlots |-> <<>>]
    /\ stmt = NoBuilder
    /\ hist = NoHistory
    /\ out = NoCall

WithProfileTwo == WithProfileOf(TwoProfiles)
PatternTwo == PatternIn(TwoSlots, PatternIds)
TemplateTwo == TemplateIn(TwoSlots, TemplateIds)

NextTwo == WithProfileTwo \/ PatternTwo \/ TemplateTwo

SpecTwo == InitTwo /\ [][NextTwo]_vars

(***************************************************************************)
(* Claims about separate occurrences, checked under SpecTwo.               *)
(***************************************************************************)
\* C13: occurrences obtained by separate pattern() calls do not interact: a
\* template() call on one, accepted or rejected, leaves the recorded
\* sequence of every other occurrence unchanged, and the decision on an
\* occurrence is that of its own pattern on its own recorded sequence.
C13_Independent ==
    /\ [][out'.op = "template" =>
            \A p \in TwoSlots \ {out'.slot} : occs'[p] = occs[p]]_vars
    /\ [](TemplateCalled =>
            /\ Recorded <=> Acceptable
            /\ \A p \in TwoSlots : occs[p].templates_so_far = accepted[p])

\* an append has been refused on one occurrence while the other, of the same
\* pattern, holds a different recorded sequence
C13_Witness ==
    /\ Rejected
    /\ out.slot = "o1"
    /\ occs["o1"].pattern = occs["o2"].pattern
    /\ occs["o1"].templates_so_far = <<"a">>
    /\ occs["o2"].templates_so_far = <<"a", "b">>

(***************************************************************************)
(* Lookups: profiles of concepts are loaded into a builder's oracle and    *)
(* identifiers are looked up in a category.                                *)
(***************************************************************************)
MaxProfiles == 2

Concept(id, type, label) ==
    [id |-> id, type |-> type, prefLabel |-> Defined(label), inScheme |-> VersionId]

\* two verbs with the same prefLabel, and an activity
LookupConcepts ==
    {Concept(VerbUri, "Verb", VerbName),
     Concept(VerbWalkUri, "Verb", VerbName),
     Concept(ActivityUri, "Activity", ActivityName)}

ConceptLists ==
    {<<c>> : c \in LookupConcepts}
    \cup {l \in {<<c, d>> : c \in LookupConcepts, d \in LookupConcepts} : l[1] # l[2]}

LookupProfiles ==
    {[id |-> ProfileId, concepts |-> cs, templates |-> <<>>, patterns |-> <<>>] :
        cs \in ConceptLists}

Identifiers == {VerbUri, VerbWalkUri, ActivityUri, VerbName, UpperVerbName, ActivityName, UnknownName}
Categories == {"Verb", "Activity"}

NoLookup ==
    [op |-> "none", identifier |-> undefined, category |-> undefined,
     status |-> "ok", value |-> NoValue]

InitLookup ==
    /\ MatchIdle
    /\ reg = ProfileRegistration_builder
    /\ occs = [o \in Slots |-> NoOcc]
    /\ accepted = [o \in Slots |-> <<>>]
    /\ stmt = NoBuilder
    /\ hist = NoHistory
    /\ out = NoLookup

\* builder = builder.withProfile(profile) of StatementBuilder: withOracle
LoadProfile ==
    /\ Len(reg.oracle) <= MaxProfiles
    /\ \E profile \in LookupProfiles :
        reg' = [reg EXCEPT !.oracle = add(@, fromProfile(profile))]
    /\ out' = NoLookup
    /\ UNCHANGED <<occs, accepted, stmt, hist>>
    /\ UNCHANGED mvars

\* builder.lookup(identifier, category)
Lookup ==
    /\ \E identifier \in Identifiers, category \in Categories :
        LET r == lookup(reg.oracle, identifier, category) IN
        out' = [op |-> "lookup", identifier |-> identifier, category |-> category,
                status |-> r.status, value |-> r.value]
    /\ UNCHANGED <<reg, occs, accepted, stmt, hist>>
    /\ UNCHANGED mvars

NextLookup == LoadProfile \/ Lookup

SpecLookup == InitLookup /\ [][NextLookup]_vars

(***************************************************************************)
(* Claims about lookups, checked under SpecLookup.                         *)
(***************************************************************************)
\* the concepts of a loaded profile that the identifier looked up names in
\* the category asked for, by id or by a prefLabel, whatever the case
Named(oracle) ==
    {i \in 1..Len(oracle.lookups) :
        /\ oracle.lookups[i].type = out.category
        /\ \/ toLowerCase(oracle.lookups[i].id) = toLowerCase(out.identifier)
           \/ \E label \in oracle.lookups[i].prefLabel.values :
                toLowerCase(label) = toLowerCase(out.identifier)}

\* some loaded profile has exactly one concept the identifier names
NamesOne == \E k \in 1..Len(reg.oracle) : Cardinality(Named(reg.oracle[k])) = 1

\* C14: lookup(identifier, category) raises exactly when the identifier has
\* no colon and does not name exactly one concept of the category in any
\* loaded profile; an identifier with a colon always resolves, to a concept
\* whose id is that identifier, whatever profiles are loaded.
C14_LookupRaises ==
    out.op = "lookup" =>
        /\ out.status # "ok" <=> (~ hasColon(out.identifier) /\ ~ NamesOne)
        /\ hasColon(out.identifier) =>
            (out.status = "ok" /\ toLowerCase(out.value.id) = toLowerCase(out.identifier))

\* a name that two verbs of the one loaded profile share has been refused
C14_Witness ==
    /\ out.op = "lookup"
    /\ out.identifier = VerbName
    /\ out.category = "Verb"
    /\ Len(reg.oracle) = 2
    /\ Cardinality(Named(reg.oracle[2])) = 2
    /\ out.status = "Error"

\* ---------------------------------------------------------------------------
\* Builder chains: a caller holds a builder, calls its with* and as* methods,
\* carries on with the builder returned, and builds
\* ---------------------------------------------------------------------------

\* the members withMember adds to one group in the model
MaxMembers == 1

CallerId == "caller id"
CallerTime == "caller time"
CallerVersion == "1.0.3"
AgentName == "Orange"
OpenId == "openid:orange"
HomePage == "home:example.org"
BuilderResponses == {"yes", "no"}
ContentTypes == {"text/plain"}

\* AgentBuilder.builder().withEmail(e), and the same with a name
EmailAgent == AgentBuilder_call(AgentBuilder_builder(EmptyMap), "withEmail", "orange@example.org")
NamedAgent == AgentBuilder_call(EmailAgent, "withName", AgentName)

\* the agents and the statement passed to the methods that take a builder
Agents == [a \in {"email agent", "named agent"} |->
              IF a = "email agent" THEN EmailAgent ELSE NamedAgent]

\* the builder() of each class
Builder_builder(class) ==
    [class |-> class, template |-> NoTemplate,
     map |-> CASE class = "AgentBuilder" -> AgentBuilder_builder(EmptyMap)
               [] class = "ActivityBuilder" -> setIn(EmptyMap, "objectType", "Activity")
               [] OTHER -> EmptyMap]

\* StatementBuilder.withVerb of a verb that has an id
withFullVerb_alone(builder, fullVerb) ==
    [builder EXCEPT !.map = setIn(EmptyMap, "verb.id", fullVerb.id)]

withFullVerb(builder, fullVerb) ==
    [builder EXCEPT !.map = setIn(deleteAll(@, PathsUnder("verb")), "verb.id", fullVerb.id)]

\* withId, withTimestamp, withVersion and withAuthority of StatementBuilder,
\* which SubStatementBuilder overrides to throw
withId(builder, uuid) ==
    IF builder.class = "SubStatementBuilder" THEN Raise("Error")
    ELSE Ok(withPath(builder, "id", uuid))

withTimestamp(builder, timestamp) ==
    IF builder.class = "SubStatementBuilder" THEN Raise("Error")
    ELSE Ok(withPath(builder, "timestamp", timestamp))

withCurrentTimestamp(builder, now) == withTimestamp(builder, now)

withVersion(builder, version) ==
    IF builder.class = "SubStatementBuilder" THEN Raise("Error")
    ELSE Ok(withPath(builder, "version", version))

withAuthority(builder, agent) ==
    IF builder.class = "SubStatementBuilder" THEN Raise("Error")
    ELSE Ok(withAgent(builder, "authority", agent))

\* this.withAgentMethod(location, method, args): that of SubStatementBuilder
\* throws for the authority
this_withAgentMethod(builder, location, method, arg) ==
    IF builder.class = "SubStatementBuilder" /\ location = "authority" THEN Raise("Error")
    ELSE Ok(withAgentMethod(builder, location, method, arg))

\* StatementBuilder.withResponse
withResponse(builder, response) == withPath(builder, "result.response", response)

\* StatementBuilder.withObject of a StatementBuilder: its map as a
\* SubStatement is set as the object
withObject(builder, object) ==
    withAgent(builder, "object", asSubStatement(object).map)

\* the shortcuts of StatementBuilder to the methods of AgentBuilder
Shortcuts ==
    [n \in {"withActorEmail", "withActorHomePage", "withInstructorEmail",
            "withAuthorityEmail", "withObjectEmail", "withObjectMember"} |->
        CASE n = "withActorEmail" -> [location |-> "actor", method |-> "withEmail"]
          [] n = "withActorHomePage" -> [location |-> "actor", method |-> "withHomePage"]
          [] n = "withInstructorEmail" ->
                [location |-> "context.instructor", method |-> "withEmail"]
          [] n = "withAuthorityEmail" -> [location |-> "authority", method |-> "withEmail"]
          [] n = "withObjectEmail" -> [location |-> "object", method |-> "withEmail"]
          [] OTHER -> [location |-> "object", method |-> "withMember"]]

\* the value of an argument: agents are passed by the name they have in Agents
Argument(method, arg) == IF method = "withMember" THEN Agents[arg] ELSE arg

\* a StatementBuilder with everything a SubStatement may not have
FullStatement ==
    withAgent(withFullVerb(withPath(withPath(withPath(StatementBuilder_builder,
                "id", CallerId), "timestamp", CallerTime), "version", CallerVersion),
            [id |-> VerbUri]),
        "authority", EmailAgent)

\* builder[name](arg) of a StatementBuilder or SubStatementBuilder
StatementBuilder_call(builder, name, arg) ==
    CASE name = "withId" -> withId(builder, arg)
      [] name = "withTimestamp" -> withTimestamp(builder, arg)
      [] name = "withCurrentTimestamp" -> withCurrentTimestamp(builder, arg)
      [] name = "withVersion" -> withVersion(builder, arg)
      [] name = "withAuthority" -> withAuthority(builder, Agents[arg])
      [] name = "withResponse" -> Ok(withResponse(builder, arg))
      [] name = "withVerb" -> Ok(withFullVerb(builder, [id |-> arg]))
      [] name = "withActor" -> Ok(withAgent(builder, "actor", Agents[arg]))
      [] name = "withObject" ->
            IF arg \in DOMAIN Agents THEN Ok(withAgent(builder, "object", Agents[arg]))
            ELSE Ok(withObject(builder, FullStatement))
      [] name = "asSubStatement" -> Ok(asSubStatement(builder))
      [] OTHER -> this_withAgentMethod(builder, Shortcuts[name].location,
                        Shortcuts[name].method, Argument(Shortcuts[name].method, arg))

\* builder[name](arg) of the other builders
Builder_call(builder, name, arg) ==
    CASE builder.class = "AgentBuilder" ->
            Ok([builder EXCEPT !.map = AgentBuilder_call(@, name, Argument(name, arg))])
      [] builder.class = "ActivityBuilder" ->
            Then(ActivityBuilder_withId(arg),
                 LAMBDA activity : Ok([builder EXCEPT !.map = setIn(@, "id", activity.id)]))
      [] builder.class = "AttachmentBuilder" ->
            Ok(withPath(builder, IF name = "withContentType" THEN "contentType" ELSE "length",
                        arg))
      [] OTHER -> StatementBuilder_call(builder, name, arg)

\* the classes of builders, those of statements among them
Classes == {"StatementBuilder", "SubStatementBuilder", "AgentBuilder", "ActivityBuilder",
            "AttachmentBuilder"}
StatementClasses == {"StatementBuilder", "SubStatementBuilder"}

\* the methods called on the builders of each class, each with the arguments
\* it is given
Calls ==
    [class \in Classes |->
        CASE class = "AgentBuilder" ->
                {<<"withEmail", e>> : e \in Emails} \cup {<<"withName", AgentName>>}
                \cup {<<"asGroup", undefined>>, <<"withMember", "email agent">>,
                      <<"withOpenid", OpenId>>, <<"withHomePage", HomePage>>,
                      <<"withAccountName", AgentName>>}
          [] class = "ActivityBuilder" ->
                {<<"withId", u>> : u \in {ActivityUri, ActivityName}}
          [] class = "AttachmentBuilder" ->
                {<<"withContentType", c>> : c \in ContentTypes} \cup {<<"withLength", "12">>}
          [] OTHER ->
                {<<"withId", CallerId>>, <<"withTimestamp", CallerTime>>,
                 <<"withVersion", CallerVersion>>, <<"withAuthority", "email agent">>,
                 <<"withObject", "statement">>, <<"asSubStatement", undefined>>}
                \cup {<<"withCurrentTimestamp", now>> : now \in Times}
                \cup {<<"withResponse", r>> : r \in BuilderResponses}
                \cup {<<n, e>> : n \in {"withActorEmail", "withAuthorityEmail"},
                                 e \in Emails}
                \cup {<<"withActorHomePage", HomePage>>}]

\* the methods called on the statements made of agents
AgentCalls ==
    [class \in StatementClasses |->
        {<<"withVerb", VerbUri>>, <<"withActor", "named agent">>,
         <<"withObject", "named agent">>, <<"withObjectMember", "email agent">>,
         <<"asSubStatement", undefined>>}
        \cup {<<n, e>> : n \in {"withActorEmail", "withInstructorEmail", "withObjectEmail"},
                         e \in Emails}]

\* the group a member is added to has room for it
Room(builder, name) ==
    \A p \in DOMAIN builder.map :
        (p \in {"member", "object.member"} /\ name \in {"withMember", "withObjectMember"})
            => Len(builder.map[p]) < MaxMembers

\* setIn, updateIn, set and merge of a Record of Immutable return another
\* record and leave the one they are called on as it was
persistent_inPlace(receiver, result) == [receiver |-> result, result |-> result]

persistent(receiver, result) == [receiver |-> receiver, result |-> result]

NoApply == [op |-> "none", arg |-> undefined, status |-> "ok", before |-> NoBuilder,
            result |-> NoBuilder, js |-> EmptyMap]

InitBuilder ==
    /\ MatchIdle
    /\ reg = ProfileRegistration_builder
    /\ occs = [o \in Slots |-> NoOcc]
    /\ accepted = [o \in Slots |-> <<>>]
    /\ stmt = NoBuilder
    /\ hist = NoHistory
    /\ out = NoApply

BuilderFrame ==
    /\ UNCHANGED <<reg, occs, accepted, hist>>
    /\ UNCHANGED mvars

\* const builder = <Class>.builder()
NewBuilderOf(classes) ==
    /\ \E class \in classes : stmt' = Builder_builder(class)
    /\ out' = NoApply
    /\ BuilderFrame

NewBuilder == NewBuilderOf(Classes \ {"SubStatementBuilder"})

\* const next = builder[name](arg)
ApplyOf(calls) ==
    /\ stmt # NoBuilder
    /\ \E c \in calls[stmt.class] :
        /\ Room(stmt, c[1])
        /\ LET r == Builder_call(stmt, c[1], c[2])
               after == persistent(stmt, IF r.status = "ok" THEN r.value ELSE NoBuilder)
           IN /\ stmt' = after.receiver
              /\ out' = [NoApply EXCEPT !.op = c[1], !.arg = c[2], !.status = r.status,
                                       !.before = stmt, !.result = after.result]
    /\ BuilderFrame

Apply == ApplyOf(Calls)

\* the caller carries on with the builder returned
Chain ==
    /\ out.result # NoBuilder
    /\ stmt' = out.result
    /\ out' = NoApply
    /\ BuilderFrame

\* builder.build()
BuildDocument ==
    /\ stmt # NoBuilder
    /\ \E uuid \in Uuids, timestamp \in Times :
        out' = [NoApply EXCEPT !.op = "build", !.before = stmt,
                               !.status = build(stmt, uuid, timestamp).status,
                               !.js = build(stmt, uuid, timestamp).js]
    /\ UNCHANGED stmt
    /\ BuilderFrame

NextBuilder == NewBuilder \/ Apply \/ Chain \/ BuildDocument

SpecBuilder == InitBuilder /\ [][NextBuilder]_vars

\* the statements made of agents: an actor, a verb, an instructor and an
\* agent or a group as the object
NewStatement == NewBuilderOf({"StatementBuilder"})

ApplyAgent == ApplyOf(AgentCalls)

NextAgents == NewStatement \/ ApplyAgent \/ Chain \/ BuildDocument

SpecAgents == InitBuilder /\ [][NextAgents]_vars

\* ---------------------------------------------------------------------------
\* Claims about builder chains
\* ---------------------------------------------------------------------------

\* a method of a builder has just been called
Called == out.op \notin {"none", "build"}

ShortcutCalled == out.op \in DOMAIN Shortcuts /\ out.status = "ok"

\* C17: a with<Role><X> shortcut that does not raise leaves at the role's path
\* the agent that AgentBuilder's with<X> makes of the agent stored there, and
\* the rest of the statement as it was; withInstructorEmail(e) on a new
\* statement builds the mbox that AgentBuilder.builder().withEmail(e) builds
C17_ShortcutAgrees ==
    ShortcutCalled =>
        LET role == Shortcuts[out.op].location
            with == Shortcuts[out.op].method
            stored == [class |-> "AgentBuilder", template |-> NoTemplate,
                       map |-> AgentBuilder_builder(agentAt(out.before.map, role))]
            direct == Builder_call(stored, with, out.arg).value
        IN \A uuid \in Uuids, timestamp \in Times :
            /\ agentAt(build(out.result, uuid, timestamp).js, role)
                = build(direct, uuid, timestamp).js
            /\ \A p \in DOMAIN out.before.map \ PathsUnder(role) :
                /\ p \in DOMAIN build(out.result, uuid, timestamp).js
                /\ build(out.result, uuid, timestamp).js[p] = out.before.map[p]
            /\ (out.op = "withInstructorEmail" /\ out.before = StatementBuilder_builder)
                => build(out.result, uuid, timestamp).js["context.instructor.mbox"]
                    = build(Builder_call(Builder_builder("AgentBuilder"), "withEmail",
                                         out.arg).value, uuid, timestamp).js["mbox"]

\* withInstructorEmail on a new statement, as the test calls it
C17_Witness ==
    /\ ShortcutCalled
    /\ out.op = "withInstructorEmail"
    /\ out.before = StatementBuilder_builder
    /\ out.result.map["context.instructor.mbox"] = Mailto(out.arg)

\* the calls that set the actor, the verb and the object of a statement
FieldOf ==
    [n \in {"withActor", "withActorEmail", "withVerb", "withObject", "withObjectEmail",
            "withObjectMember"} |->
        CASE n \in {"withActor", "withActorEmail"} -> "actor"
          [] n = "withVerb" -> "verb"
          [] OTHER -> "object"]

\* what a document holds under a field
Part(js, field) == [p \in DOMAIN js \cap PathsUnder(field) |-> js[p]]

Present(js, field) ==
    IF field = "verb" THEN "verb.id" \in DOMAIN js ELSE Part(js, field) # EmptyMap

\* C18: a call that sets the actor, the verb (given with an id) or an agent
\* as the object leaves the field it sets present in the built document and
\* the other two of the three as they were, and no call of the chain removes
\* one of the three: after an actor call, withVerb and an object call, in
\* order, the document has actor, verb.id and object
C18_ActorVerbObject ==
    (Called /\ out.status = "ok") =>
        \A uuid \in Uuids, timestamp \in Times :
            LET js == build(out.result, uuid, timestamp).js IN
            /\ \A field \in {"actor", "verb", "object"} :
                Present(out.before.map, field) => Present(js, field)
            /\ out.op \in DOMAIN FieldOf =>
                /\ Present(js, FieldOf[out.op])
                /\ \A other \in {"actor", "verb", "object"} \ {FieldOf[out.op]} :
                    Part(js, other) = Part(out.before.map, other)

\* the object is set after withActorEmail and withVerb, in that order
C18_Witness ==
    /\ Called
    /\ out.op \in DOMAIN FieldOf
    /\ FieldOf[out.op] = "object"
    /\ \E e \in Emails :
        out.before = withFullVerb(withAgentMethod(StatementBuilder_builder, "actor",
                                                  "withEmail", e), [id |-> VerbUri])
    /\ \A field \in {"actor", "verb", "object"} : Present(out.result.map, field)

\* what a SubStatement may not have, and the calls that would set it
Disallowed == {"id", "timestamp", "version"} \cup PathsUnder("authority")
DisallowedCalls ==
    {"withId", "withTimestamp", "withCurrentTimestamp", "withVersion", "withAuthority",
     "withAuthorityEmail"}

\* C19: the builder asSubStatement returns, and every builder a chain of calls
\* makes of it, holds and builds none of id, timestamp, version and authority,
\* and so does the object that withObject makes of a StatementBuilder; withId,
\* withTimestamp, withCurrentTimestamp, withVersion, withAuthority and
\* withAuthorityEmail raise on such a builder
C19_SubStatement ==
    /\ stmt.class = "SubStatementBuilder" =>
        /\ DOMAIN stmt.map \cap Disallowed = {}
        /\ \A uuid \in Uuids, timestamp \in Times :
            DOMAIN build(stmt, uuid, timestamp).js \cap Disallowed = {}
    /\ (Called /\ out.result.class = "SubStatementBuilder") =>
        DOMAIN out.result.map \cap Disallowed = {}
    /\ (Called /\ out.before.class = "SubStatementBuilder" /\ out.op \in DisallowedCalls) =>
        out.status = "Error" /\ out.result = NoBuilder
    /\ (Called /\ out.op = "withObject" /\ out.arg = "statement") =>
        /\ out.result.map["object.objectType"] = "SubStatement"
        /\ DOMAIN out.result.map \cap {"object." \o p : p \in Disallowed} = {}

\* asSubStatement of a statement that has all four
C19_Witness ==
    /\ out.op = "asSubStatement"
    /\ {"id", "timestamp", "version", "authority.mbox"} \subseteq DOMAIN out.before.map
    /\ out.result.class = "SubStatementBuilder"
    /\ out.result.map["objectType"] = "SubStatement"

\* C20: the document build() returns for a StatementBuilder has an id and a
\* timestamp, those given to withId and withTimestamp when the caller gave them
C20_IdAndTimestamp ==
    (out.op = "build" /\ out.before.class = "StatementBuilder" /\ out.status = "ok") =>
        \A p \in {"id", "timestamp"} :
            /\ p \in DOMAIN out.js
            /\ p \in DOMAIN out.before.map => out.js[p] = out.before.map[p]

\* a statement is built after withId and withTimestamp
C20_Witness ==
    /\ out.op = "build"
    /\ out.before.class = "StatementBuilder"
    /\ {"id", "timestamp"} \subseteq DOMAIN out.before.map
    /\ out.js["id"] = CallerId
    /\ out.js["timestamp"] = CallerTime

(***************************************************************************)
(* Further claims about _matches, checked under SpecMatch.                 *)
(***************************************************************************)
\* C21: OneOrMore(Leaf t) on n >= 1 copies of t followed by a rest that does
\* not start with t returns Success with that rest as remainder; on [t] and
\* on [t, t] the remainder is empty.
C21_OneOrMoreGreedy ==
    (/\ DoneOn("oneOrMore")
     /\ mpatterns[melem].children[1] \notin DOMAIN mpatterns
     /\ mseq # <<>>
     /\ mseq[1] = mpatterns[melem].children[1])
    => mres = Return(SUCCESS, StripLeading(mpatterns[melem].children[1], mseq))

\* OneOrMore(a) on [a, a]: Success, and the whole input is handed back
C21_Witness ==
    /\ DoneOn("oneOrMore")
    /\ mpatterns[melem].children = <<"a">>
    /\ mseq = <<"a", "a">>
    /\ mres = Return(SUCCESS, <<"a", "a">>)

\* the children of the Alternates pattern, each tried on the whole input,
\* all return and none returns Success
AltNoneSucceeds ==
    /\ DoneOn("alternates")
    /\ \A i \in 1..Len(mpatterns[melem].children) :
        /\ ChildResult(i, mseq).type = "return"
        /\ ChildResult(i, mseq).success # SUCCESS

AltPartial ==
    {i \in 1..Len(mpatterns[melem].children) : ChildResult(i, mseq).success = PARTIAL}

\* C22: an Alternates pattern none of whose children, each tried on the
\* original sequence, returns Success returns Partial with empty remainder
\* when a child returns Partial, and Failure with the original sequence as
\* remainder otherwise.
C22_AlternatesNoSuccess ==
    AltNoneSucceeds =>
        /\ AltPartial # {} => mres = Return(PARTIAL, <<>>)
        /\ AltPartial = {} => mres = Return(FAILURE, mseq)

\* Alternates([Sequence([b, a]), a]) on [b]: the second child fails on the
\* whole input, the first is Partial
C22_Witness ==
    /\ AltNoneSucceeds
    /\ mpatterns[melem].children = <<"p2", "a">>
    /\ mpatterns["p2"] = [kind |-> "sequence", children |-> <<"b", "a">>]
    /\ mseq = <<"b">>
    /\ mres = Return(PARTIAL, <<>>)

\* C23: an Optional pattern returns Success with empty remainder on the empty
\* sequence; on a non-empty sequence it returns what its child returns when
\* that is Success or Partial, and Success with the original sequence when
\* the child fails; it never returns Failure and never raises.
C23_OptionalNeverFails ==
    (DoneOn("optional") /\ ChildResult(1, mseq).type = "return") =>
        /\ mres.type = "return"
        /\ mres.success # FAILURE
        /\ mseq = <<>> => mres = Return(SUCCESS, <<>>)
        /\ (mseq # <<>> /\ ChildResult(1, mseq).success # FAILURE) =>
            mres = ChildResult(1, mseq)
        /\ (mseq # <<>> /\ ChildResult(1, mseq).success = FAILURE) =>
            mres = Return(SUCCESS, mseq)

\* Optional(a) on [b]: the child fails, and the call throws
C23_Witness ==
    /\ DoneOn("optional")
    /\ mpatterns[melem].children = <<"a">>
    /\ mseq = <<"b">>
    /\ mres = Throw

\* every pattern of the set has one of the five keys
WellFormed == \A p \in DOMAIN mpatterns : mpatterns[p].kind # "none"

\* C27: on every sequence and every pattern set without cyclic references
\* _matches ends with a result {success, remaining}, and the remainder is not
\* longer than the input.
C27_Terminates ==
    (mpc = "done" /\ WellFormed) =>
        /\ mres.type = "return"
        /\ Len(mres.remaining) <= Len(mseq)

\* ZeroOrMore(ZeroOrMore(a)) on [b]: the first iteration consumes nothing and
\* the loop ends
C27_Witness ==
    /\ DoneOn("zeroOrMore")
    /\ mpatterns[melem].children = <<"p2">>
    /\ mpatterns["p2"] = [kind |-> "zeroOrMore", children |-> <<"a">>]
    /\ mseq = <<"b">>
    /\ mres = Return(SUCCESS, <<"b">>)

(***************************************************************************)
(* Further claims about the rules of a template, checked under SpecRule.   *)
(***************************************************************************)
\* C26: a rule with presence excluded raises if and only if its candidate
\* set is not empty, whatever its any, all and none sets are.
C26_Excluded ==
    (out.op = "_checkRule" /\ prop(out.rule, "presence") = "excluded") =>
        (out.result # "ok" <=> Candidates # {})

\* an excluded rule with any, all and none, and nothing at its location
C26_Witness ==
    /\ out.op = "_checkRule"
    /\ prop(out.rule, "presence") = "excluded"
    /\ {"any", "all", "none"} \subseteq DOMAIN out.rule
    /\ Candidates = {}
    /\ out.result = "ok"

\* ---------------------------------------------------------------------------
\* TemplateBuilder.validate as a function of the document and the template
\* ---------------------------------------------------------------------------

CourseType == "type:course"
LessonType == "type:lesson"
UsageType == "usage:certificate"

\* the relations of context.contextActivities, in the order validate goes
\* through them, and the property of a template that names the types each
\* one requires
Relations == <<"parent", "category", "grouping", "other">>
capitalize(name) ==
    CASE name = "parent" -> "Parent"
      [] name = "category" -> "Category"
      [] name = "grouping" -> "Grouping"
      [] OTHER -> "Other"
RequiredKey(name) == "context" \o capitalize(name) \o "ActivityType"

\* the determining properties a template of the model may have, and its rules
Determining ==
    {"verb", "objectActivityType", "attachmentUsageType", "objectStatementRefTemplate",
     "contextStatementRefTemplate"}
RuleLists ==
    {<<>>,
     <<[location |-> <<"$.result.success">>, presence |-> "included"]>>,
     <<[location |-> <<"$.result.success">>, presence |-> "included"],
       [location |-> <<"$.verb.id">>, presence |-> "included"]>>}

TemplateOf(keys, relations, rules) ==
    [k \in {"id"} \cup keys \cup {RequiredKey(r) : r \in relations}
           \cup (IF rules = <<>> THEN {} ELSE {"rules"}) |->
        CASE k = "id" -> "a"
          [] k = "verb" -> VerbUri
          [] k = "objectActivityType" -> CourseType
          [] k = "attachmentUsageType" -> <<UsageType>>
          [] k \in {"objectStatementRefTemplate", "contextStatementRefTemplate"} -> <<"b">>
          [] k = "rules" -> rules
          [] OTHER -> <<CourseType>>]

ValidateTemplates ==
    {TemplateOf(keys, relations, rules) :
        keys \in SUBSET Determining, relations \in {{}, {"parent"}, {"other"}},
        rules \in RuleLists}

\* the documents validated: each path is there or not; the activities of one
\* relation of the context are of the course type or of the lesson type
Activity(type) == [id |-> ActivityUri, definition |-> [type |-> type]]

DocumentPaths ==
    {"verb.id", "object.definition.type", "attachments", "object.objectType",
     "context.statement", "result.success"}

DocumentOf(paths, relation, type) ==
    [p \in paths \cup (IF relation = "none" THEN {}
                       ELSE {"context.contextActivities." \o relation}) |->
        CASE p = "verb.id" -> VerbUri
          [] p = "object.definition.type" -> CourseType
          [] p = "attachments" -> <<[usageType |-> UsageType]>>
          [] p = "object.objectType" -> "StatementRef"
          [] p = "context.statement" -> "statement"
          [] p = "result.success" -> "x"
          [] OTHER -> <<Activity(type)>>]

ValidateDocuments ==
    {DocumentOf(paths, "none", CourseType) : paths \in SUBSET DocumentPaths}
    \cup {DocumentOf(paths, r[1], r[2]) :
            paths \in SUBSET DocumentPaths,
            r \in {<<"parent", CourseType>>, <<"parent", LessonType>>,
                   <<"other", CourseType>>}}

InitValidate ==
    /\ MatchIdle
    /\ reg = ProfileRegistration_builder
    /\ occs = [o \in Slots |-> NoOcc]
    /\ accepted = [o \in Slots |-> <<>>]
    /\ stmt = NoBuilder
    /\ hist = NoHistory
    /\ \E js \in ValidateDocuments, tmpl \in ValidateTemplates :
        out = [op |-> "call", js |-> js, template |-> tmpl, result |-> "none"]

\* this.validate(js) of a TemplateBuilder made of the template
Validate ==
    /\ out.op = "call"
    /\ out' = [out EXCEPT !.op = "validate", !.result = validate(out.js, out.template)]
    /\ UNCHANGED <<reg, occs, accepted, stmt, hist>>
    /\ UNCHANGED mvars

NextValidate == Validate

SpecValidate == InitValidate /\ [][NextValidate]_vars

\* the activity types a template requires for a relation of the context, and
\* those of the activities the document has there
RequiredTypes(tmpl, relation) ==
    IF RequiredKey(relation) \in DOMAIN tmpl THEN Range(tmpl[RequiredKey(relation)]) ELSE {}

PresentTypes(js, relation) ==
    IF "context.contextActivities." \o relation \in DOMAIN js
    THEN {a.definition.type : a \in Range(js["context.contextActivities." \o relation])}
    ELSE {}

MissingTypes(relation) ==
    RequiredTypes(out.template, relation) \ PresentTypes(out.js, relation)

ContextError == "context activity types must include all of"

\* C25: validation raises when a type the template requires for a relation of
\* the context is not the definition.type of an activity the statement has in
\* that relation, and the check of the context activity types passes when
\* every required type is there.
C25_ContextActivityTypes ==
    out.op = "validate" =>
        /\ (\E i \in 1..Len(Relations) : MissingTypes(Relations[i]) # {})
            => out.result # "ok"
        /\ (\A i \in 1..Len(Relations) : MissingTypes(Relations[i]) = {})
            => out.result # ContextError

\* a template that requires a parent of the course type validates a
\* statement whose only parent is of the lesson type
C25_Witness ==
    /\ out.op = "validate"
    /\ RequiredTypes(out.template, "parent") = {CourseType}
    /\ PresentTypes(out.js, "parent") = {LessonType}
    /\ out.result = "ok"

\* the first rule of the template, in declaration order, that raises
FirstRuleError ==
    LET rules == IF "rules" \in DOMAIN out.template THEN out.template.rules ELSE <<>>
        failing == {i \in 1..Len(rules) : _checkRule(out.js, rules[i]) # "ok"}
    IN IF failing = {} THEN "ok"
       ELSE _checkRule(out.js, rules[CHOOSE i \in failing : \A j \in failing : i <= j])

\* the error of the earliest check the statement violates, in the order verb
\* id, object activity type, context activity types, attachment usage types,
\* object StatementRef, context StatementRef, rules
EarliestError ==
    IF "verb" \in DOMAIN out.template /\ getPath(out.js, "verb.id") # out.template.verb
    THEN "verb id must be"
    ELSE IF /\ "objectActivityType" \in DOMAIN out.template
            /\ getPath(out.js, "object.definition.type") # out.template.objectActivityType
    THEN "object activity type must be"
    ELSE IF \E i \in 1..Len(Relations) : MissingTypes(Relations[i]) # {}
    THEN ContextError
    ELSE IF /\ "attachmentUsageType" \in DOMAIN out.template
            /\ \E u \in Range(out.template.attachmentUsageType) :
                u \notin Range(usageTypes(out.js))
    THEN "attachment usage types must include all of"
    ELSE IF /\ "objectStatementRefTemplate" \in DOMAIN out.template
            /\ getPath(out.js, "object.objectType") # "StatementRef"
    THEN "object must be a StatementRef"
    ELSE IF /\ "contextStatementRefTemplate" \in DOMAIN out.template
            /\ "context.statement" \notin DOMAIN out.js
    THEN "the context statement must be present"
    ELSE FirstRuleError

\* C24: validation raises the error of the earliest violated check in the
\* order verb id, object activity type, context activity types, attachment
\* usage types, object StatementRef, context StatementRef, rules in
\* declaration order, and raises nothing when no check is violated.
C24_FirstFailingCheck ==
    out.op = "validate" => out.result = EarliestError

\* a statement that violates the context activity types and the attachment
\* usage types of its template: the error raised is that of the attachments
C24_Witness ==
    /\ out.op = "validate"
    /\ MissingTypes("parent") # {}
    /\ EarliestError = ContextError
    /\ out.result = "attachment usage types must include all of"

(***************************************************************************)
(* Further claims about pattern occurrences, checked under Spec.           *)
(***************************************************************************)
\* the patterns the registered profile declares
Declared == DOMAIN reg.lookups.pattern_profiles

\* C28: the occurrence pattern(name) returns for a pattern of a profile that
\* declares two patterns or more holds all the patterns of the profile in
\* its pattern set, its own root pattern among them.
C28_AllPatterns ==
    (out.op = "pattern" /\ out.status = "ok" /\ Cardinality(Declared) >= 2) =>
        /\ DOMAIN occs[out.slot].patterns = Declared
        /\ occs[out.slot].pattern.id \in DOMAIN occs[out.slot].patterns

\* the occurrence of p1, the first of two patterns declared, holds p2 alone
C28_Witness ==
    /\ out.op = "pattern"
    /\ out.status = "ok"
    /\ Declared = {"p1", "p2"}
    /\ occs[out.slot].pattern.id = "p1"
    /\ DOMAIN occs[out.slot].patterns = {"p2"}

\* C29: when template() raises, for whatever reason, the occurrence's
\* templates_so_far is what it was before the call; the template id is
\* recorded only when a builder is returned.
C29_AllOrNothing ==
    out.op = "template" =>
        /\ out.status # "ok" => occs[out.slot].templates_so_far = out.before
        /\ occs[out.slot].templates_so_far # out.before => out.status = "ok"

\* recordTemplate accepted the template and the pre-filling of the builder
\* raised: the id is recorded and no builder is returned
C29_Witness ==
    /\ out.op = "template"
    /\ out.stage = "prefill"
    /\ out.status # "ok"
    /\ occs[out.slot].templates_so_far = out.before \o <<out.id>>

\* the identifier fields an agent document carries
IdentifiersOf(agent) == DOMAIN agent \cap {"mbox", "mbox_sha1sum", "openid", "account"}

\* the agent documents of a builder: its own map for an AgentBuilder, what it
\* has at each place of an agent for a statement builder
AgentsOf(builder) ==
    IF builder.class = "AgentBuilder" THEN {builder.map}
    ELSE IF builder.class \in StatementClasses
    THEN {agentAt(builder.map, location) : location \in AgentLocations}
    ELSE {}

\* C30: after any chain of AgentBuilder calls, and of the shortcuts of
\* StatementBuilder to them, an agent document carries at most one of mbox,
\* mbox_sha1sum, openid and account.
C30_OneIdentifier ==
    /\ \A agent \in AgentsOf(stmt) : Cardinality(IdentifiersOf(agent)) <= 1
    /\ Called => \A agent \in AgentsOf(out.result) : Cardinality(IdentifiersOf(agent)) <= 1

\* withHomePage on an agent that has an mbox: both are in the document
C30_Witness ==
    /\ Called
    /\ out.op = "withHomePage"
    /\ out.before.class = "AgentBuilder"
    /\ IdentifiersOf(out.before.map) = {"mbox"}
    /\ IdentifiersOf(out.result.map) = {"mbox", "account"}

====
